---------------------------- MODULE Spec2Model ----------------------------
(***************************************************************************)
(* Model of the dynamic price engine (src/app): the calendar day           *)
(* classifier, the two demand estimators, the override detector and the    *)
(* price composer.                                                          *)
(*                                                                          *)
(* Numbers.  The program computes with Python floats; the model computes   *)
(* with exact decimal fixed point:                                          *)
(*   scores and probabilities   units of 1e-4  (0.45  is 4500)              *)
(*   override factors           units of 1e-2  (1.50  is 150)               *)
(*   combined override factor   units of 1e-8                               *)
(*   surge multiplier           units of 1e-6                               *)
(*   raw and final multiplier   units of 1e-14, as limb sequences           *)
(*   rates and prices           units of 1e-16, as limb sequences           *)
(* round(x, n) is modelled as exact round-half-to-even.  The floats of the  *)
(* program carry an error of about 1e-16, so where the exact value is a     *)
(* decimal tie (0.123450 rounded to 4 places) the program may return either *)
(* neighbour; everywhere else the model and the program agree digit for     *)
(* digit.  No property below depends on the direction of a tie.             *)
(*                                                                          *)
(* Dates are proleptic Gregorian ordinals (date.toordinal()), so that       *)
(* date.min is 1 and date.max is 3652059.                                   *)
(***************************************************************************)
EXTENDS Integers, Sequences, FiniteSets, TLC

VARIABLES
    files,              \* the two profile files on disk: their JSON content, or "absent"
    demand_model,       \* DemandModel: [profiles, using_fallback]
    demand_model_v2,    \* DemandModelV2: [profiles, using_fallback]
    override_detector,  \* OverrideDetector: [weather_by_month]
    now,                \* what datetime.now() returns: [date, hour]
    call,               \* the call being made: [op, ...arguments]
    ret,                \* its outcome: [kind |-> "pending"], a result, or an exception
    returned            \* the calls that returned before it, oldest first: [call, now, ret]

vars == <<files, demand_model, demand_model_v2, override_detector, now, call, ret, returned>>

-----------------------------------------------------------------------------
(* datetime.date *)

\* Days before each month in a non-leap year (index 1..12).
DaysBeforeMonth == <<0, 31, 59, 90, 120, 151, 181, 212, 243, 273, 304, 334>>

IsLeap(year) == year % 4 = 0 /\ (year % 100 # 0 \/ year % 400 = 0)

\* date(year, month, day).toordinal()
Ymd2Ord(year, month, day) ==
    LET y == year - 1
    IN  y * 365 + y \div 4 - y \div 100 + y \div 400
            + DaysBeforeMonth[month] + (IF month > 2 /\ IsLeap(year) THEN 1 ELSE 0)
            + day

MIN_ORDINAL == Ymd2Ord(1, 1, 1)          \* date.min
MAX_ORDINAL == Ymd2Ord(9999, 12, 31)     \* date.max

IsDate(o) == o >= MIN_ORDINAL /\ o <= MAX_ORDINAL

\* date.weekday(): Monday is 0, Sunday is 6.
Weekday(d) == (d + 6) % 7

\* date.month, by the standard ordinal -> (year, month, day) conversion.
Month(d) ==
    LET n0    == d - 1
        n1r   == n0 % 146097
        n100  == n1r \div 36524
        n2r   == n1r % 36524
        n4    == n2r \div 1461
        n3r   == n2r % 1461
        n1    == n3r \div 365
        n     == n3r % 365
        leap  == n1 = 3 /\ (n4 # 24 \/ n100 = 3)
        guess == (n + 50) \div 32
        prec  == DaysBeforeMonth[guess] + (IF guess > 2 /\ leap THEN 1 ELSE 0)
    IN  IF n1 = 4 \/ n100 = 4 THEN 12
        ELSE IF prec > n THEN guess - 1 ELSE guess

-----------------------------------------------------------------------------
(* app/config.py: the holiday calendar.  The source lists 2025-10-02 twice  *)
(* ("Gandhi Jayanti", then "Dussehra"); a dict literal keeps the last.      *)

INDIAN_HOLIDAYS ==
       738911 :> "Republic Day"                     \* 2024-01-26 Fri
    @@ 738970 :> "Holi"                             \* 2024-03-25 Mon
    @@ 738974 :> "Good Friday"                      \* 2024-03-29 Fri
    @@ 738987 :> "Eid ul-Fitr"                      \* 2024-04-11 Thu
    @@ 738990 :> "Ambedkar Jayanti"                 \* 2024-04-14 Sun
    @@ 738993 :> "Ram Navami"                       \* 2024-04-17 Wed
    @@ 738997 :> "Mahavir Jayanti"                  \* 2024-04-21 Sun
    @@ 739029 :> "Buddha Purnima"                   \* 2024-05-23 Thu
    @@ 739054 :> "Eid ul-Adha"                      \* 2024-06-17 Mon
    @@ 739084 :> "Muharram"                         \* 2024-07-17 Wed
    @@ 739113 :> "Independence Day"                 \* 2024-08-15 Thu
    @@ 739117 :> "Raksha Bandhan"                   \* 2024-08-19 Mon
    @@ 739124 :> "Janmashtami"                      \* 2024-08-26 Mon
    @@ 739136 :> "Milad un-Nabi"                    \* 2024-09-07 Sat
    @@ 739161 :> "Gandhi Jayanti"                   \* 2024-10-02 Wed
    @@ 739171 :> "Dussehra"                         \* 2024-10-12 Sat
    @@ 739190 :> "Halloween / Diwali Eve"           \* 2024-10-31 Thu
    @@ 739191 :> "Diwali"                           \* 2024-11-01 Fri
    @@ 739192 :> "Diwali (Day 2)"                   \* 2024-11-02 Sat
    @@ 739205 :> "Guru Nanak Jayanti"               \* 2024-11-15 Fri
    @@ 739245 :> "Christmas"                        \* 2024-12-25 Wed
    @@ 739252 :> "New Year"                         \* 2025-01-01 Wed
    @@ 739265 :> "Pongal / Makar Sankranti"         \* 2025-01-14 Tue
    @@ 739277 :> "Republic Day"                     \* 2025-01-26 Sun
    @@ 739324 :> "Holi"                             \* 2025-03-14 Fri
    @@ 739340 :> "Eid ul-Fitr"                      \* 2025-03-30 Sun
    @@ 739347 :> "Ram Navami"                       \* 2025-04-06 Sun
    @@ 739351 :> "Mahavir Jayanti"                  \* 2025-04-10 Thu
    @@ 739355 :> "Ambedkar Jayanti"                 \* 2025-04-14 Mon
    @@ 739359 :> "Good Friday"                      \* 2025-04-18 Fri
    @@ 739383 :> "Buddha Purnima"                   \* 2025-05-12 Mon
    @@ 739409 :> "Eid ul-Adha"                      \* 2025-06-07 Sat
    @@ 739438 :> "Muharram"                         \* 2025-07-06 Sun
    @@ 739472 :> "Raksha Bandhan"                   \* 2025-08-09 Sat
    @@ 739478 :> "Independence Day / Janmashtami"   \* 2025-08-15 Fri
    @@ 739490 :> "Milad un-Nabi"                    \* 2025-08-27 Wed
    @@ 739526 :> "Dussehra"                         \* 2025-10-02 Thu
    @@ 739544 :> "Diwali"                           \* 2025-10-20 Mon
    @@ 739545 :> "Diwali (Day 2)"                   \* 2025-10-21 Tue
    @@ 739560 :> "Guru Nanak Jayanti"               \* 2025-11-05 Wed
    @@ 739610 :> "Christmas"                        \* 2025-12-25 Thu
    @@ 739617 :> "New Year"                         \* 2026-01-01 Thu
    @@ 739630 :> "Pongal / Makar Sankranti"         \* 2026-01-14 Wed
    @@ 739642 :> "Republic Day"                     \* 2026-01-26 Mon
    @@ 739679 :> "Holi"                             \* 2026-03-04 Wed
    @@ 739695 :> "Eid ul-Fitr"                      \* 2026-03-20 Fri
    @@ 739701 :> "Ram Navami"                       \* 2026-03-26 Thu
    @@ 739706 :> "Mahavir Jayanti"                  \* 2026-03-31 Tue
    @@ 739709 :> "Good Friday"                      \* 2026-04-03 Fri
    @@ 739720 :> "Ambedkar Jayanti"                 \* 2026-04-14 Tue
    @@ 739737 :> "Buddha Purnima"                   \* 2026-05-01 Fri
    @@ 739763 :> "Eid ul-Adha"                      \* 2026-05-27 Wed
    @@ 739793 :> "Muharram"                         \* 2026-06-26 Fri
    @@ 739826 :> "Raksha Bandhan"                   \* 2026-07-29 Wed
    @@ 739842 :> "Janmashtami"                      \* 2026-08-14 Fri
    @@ 739843 :> "Independence Day"                 \* 2026-08-15 Sat
    @@ 739845 :> "Milad un-Nabi"                    \* 2026-08-17 Mon
    @@ 739880 :> "Dussehra"                         \* 2026-09-21 Mon
    @@ 739891 :> "Gandhi Jayanti"                   \* 2026-10-02 Fri
    @@ 739898 :> "Diwali"                           \* 2026-10-09 Fri
    @@ 739899 :> "Diwali (Day 2)"                   \* 2026-10-10 Sat
    @@ 739914 :> "Guru Nanak Jayanti"               \* 2026-10-25 Sun
    @@ 739975 :> "Christmas"                        \* 2026-12-25 Fri

\* str.lower() of every holiday name, as a sequence of characters.
LowerChars ==
       "Ambedkar Jayanti" :>
         <<"a","m","b","e","d","k","a","r"," ","j","a","y","a","n","t","i">>
    @@ "Buddha Purnima" :>
         <<"b","u","d","d","h","a"," ","p","u","r","n","i","m","a">>
    @@ "Christmas" :>
         <<"c","h","r","i","s","t","m","a","s">>
    @@ "Diwali" :>
         <<"d","i","w","a","l","i">>
    @@ "Diwali (Day 2)" :>
         <<"d","i","w","a","l","i"," ","(","d","a","y"," ","2",")">>
    @@ "Dussehra" :>
         <<"d","u","s","s","e","h","r","a">>
    @@ "Eid ul-Adha" :>
         <<"e","i","d"," ","u","l","-","a","d","h","a">>
    @@ "Eid ul-Fitr" :>
         <<"e","i","d"," ","u","l","-","f","i","t","r">>
    @@ "Gandhi Jayanti" :>
         <<"g","a","n","d","h","i"," ","j","a","y","a","n","t","i">>
    @@ "Good Friday" :>
         <<"g","o","o","d"," ","f","r","i","d","a","y">>
    @@ "Guru Nanak Jayanti" :>
         <<"g","u","r","u"," ","n","a","n","a","k"," ","j","a","y","a","n","t","i">>
    @@ "Halloween / Diwali Eve" :>
         <<"h","a","l","l","o","w","e","e","n"," ","/"," ","d","i","w","a","l","i"," ","e","v","e">>
    @@ "Holi" :>
         <<"h","o","l","i">>
    @@ "Independence Day" :>
         <<"i","n","d","e","p","e","n","d","e","n","c","e"," ","d","a","y">>
    @@ "Independence Day / Janmashtami" :>
         <<"i","n","d","e","p","e","n","d","e","n","c","e"," ","d","a","y"," ","/"," ","j","a","n","m","a","s","h","t","a","m","i">>
    @@ "Janmashtami" :>
         <<"j","a","n","m","a","s","h","t","a","m","i">>
    @@ "Mahavir Jayanti" :>
         <<"m","a","h","a","v","i","r"," ","j","a","y","a","n","t","i">>
    @@ "Milad un-Nabi" :>
         <<"m","i","l","a","d"," ","u","n","-","n","a","b","i">>
    @@ "Muharram" :>
         <<"m","u","h","a","r","r","a","m">>
    @@ "New Year" :>
         <<"n","e","w"," ","y","e","a","r">>
    @@ "Pongal / Makar Sankranti" :>
         <<"p","o","n","g","a","l"," ","/"," ","m","a","k","a","r"," ","s","a","n","k","r","a","n","t","i">>
    @@ "Raksha Bandhan" :>
         <<"r","a","k","s","h","a"," ","b","a","n","d","h","a","n">>
    @@ "Ram Navami" :>
         <<"r","a","m"," ","n","a","v","a","m","i">>
    @@ "Republic Day" :>
         <<"r","e","p","u","b","l","i","c"," ","d","a","y">>

FESTIVAL_KEYWORDS ==
    { <<"d","i","w","a","l","i">>,
      <<"h","o","l","i">>,
      <<"d","u","s","s","e","h","r","a">>,
      <<"c","h","r","i","s","t","m","a","s">>,
      <<"p","o","n","g","a","l">>,
      <<"g","a","n","e","s","h">>,
      <<"o","n","a","m">>,
      <<"e","i","d">>,
      <<"g","u","r","u"," ","n","a","n","a","k">> }

HolidayDates == DOMAIN INDIAN_HOLIDAYS

\* d in INDIAN_HOLIDAYS
IsHoliday(d) == d \in HolidayDates

\* INDIAN_HOLIDAYS.get(d)
HolidayNameOf(d) == IF d \in HolidayDates THEN INDIAN_HOLIDAYS[d] ELSE "None"

-----------------------------------------------------------------------------
(* Day classification: DemandModel._classify_day and its helpers.  Date     *)
(* arithmetic past date.min or date.max raises OverflowError, which the     *)
(* helpers do not catch: the outcome "OverflowError" stands for it.         *)

\* The membership test with the bridge day of a Tuesday or Thursday holiday
\* left out of the stretch.
InStretchWithoutBridge(d, check) ==
    LET hw == Weekday(check)
    IN  \/ hw = 0 /\ d \in {check - 2, check - 1, check}
        \/ hw = 4 /\ d \in {check, check + 1, check + 2}
        \/ hw = 1 /\ d \in {check - 3, check - 2, check}
        \/ hw = 3 /\ d \in {check, check + 2, check + 3}

\* The membership test of one scanned holiday `check` in _is_long_weekend_day.
InStretch(d, check) ==
    LET hw == Weekday(check)
    IN  \/ hw = 0 /\ d \in {check - 2, check - 1, check}
        \/ hw = 4 /\ d \in {check, check + 1, check + 2}
        \/ hw = 1 /\ d \in {check - 3, check - 2, check - 1, check}
        \/ hw = 3 /\ d \in {check, check + 1, check + 2, check + 3}

\* The loop `for offset in range(-3, 4)`, from `offset` on.
RECURSIVE LongWeekendScan(_, _)
LongWeekendScan(d, offset) ==
    IF offset > 3 THEN "False"
    ELSE LET check == d + offset
         IN  IF ~IsDate(check) THEN "OverflowError"
             ELSE IF IsHoliday(check) /\ InStretch(d, check) THEN "True"
             ELSE LongWeekendScan(d, offset + 1)

\* The scan over range(-2, 3) instead of range(-3, 4).
RECURSIVE LongWeekendScanNarrow(_, _)
LongWeekendScanNarrow(d, offset) ==
    IF offset > 2 THEN "False"
    ELSE LET check == d + offset
         IN  IF ~IsDate(check) THEN "OverflowError"
             ELSE IF IsHoliday(check) /\ InStretch(d, check) THEN "True"
             ELSE LongWeekendScanNarrow(d, offset + 1)

_is_long_weekend_day_narrow(d) == LongWeekendScanNarrow(d, -2)

_is_long_weekend_day(d) == LongWeekendScan(d, -3)

_is_strong_bridge(d) ==
    LET weekday == Weekday(d)
    IN  IF weekday = 0
        THEN IF ~IsDate(d + 1) THEN "OverflowError"
             ELSE IF IsHoliday(d + 1) THEN "True"
             ELSE "False"         \* weekday # 4: the second test is skipped
        ELSE IF weekday = 4
        THEN IF ~IsDate(d - 1) THEN "OverflowError"
             ELSE IF IsHoliday(d - 1) THEN "True" ELSE "False"
        ELSE "False"

\* The loop `for offset in range(-2, 3)`, from `offset` on.
RECURSIVE WeakBridgeScan(_, _)
WeakBridgeScan(d, offset) ==
    IF offset > 2 THEN "False"
    ELSE LET check == d + offset
         IN  IF ~IsDate(check) THEN "OverflowError"
             ELSE IF IsHoliday(check) /\ Weekday(check) = 2 /\ check # d THEN "True"
             ELSE WeakBridgeScan(d, offset + 1)

_is_weak_bridge(d) == WeakBridgeScan(d, -2)

\* The tail of the chain with the weak-bridge test moved ahead of the
\* weekday tests.
ClassifyByWeekdayBridgeFirst(d, exam) ==
    LET weekday == Weekday(d)
        wb      == _is_weak_bridge(d)
    IN  IF wb = "OverflowError" THEN "OverflowError"
        ELSE IF wb = "True" THEN "bridge_weak"
        ELSE IF weekday = 5 THEN "saturday"
        ELSE IF weekday = 6 THEN "sunday"
        ELSE IF weekday = 4 THEN "friday"
        ELSE IF exam /\ Month(d) \in {3, 4} /\ weekday < 5 THEN "exam_weekday"
        ELSE "regular_weekday"

\* The tail of the chain shared by both models, from the weekday tests on;
\* `exam` tells whether the exam_weekday rule is part of the chain (v1 only).
ClassifyByWeekday(d, exam) ==
    LET weekday == Weekday(d)
    IN  IF weekday = 5 THEN "saturday"
        ELSE IF weekday = 6 THEN "sunday"
        ELSE IF weekday = 4 THEN "friday"
        ELSE LET wb == _is_weak_bridge(d)
             IN  IF wb = "OverflowError" THEN "OverflowError"
                 ELSE IF wb = "True" THEN "bridge_weak"
                 ELSE IF exam /\ Month(d) \in {3, 4} /\ weekday < 5 THEN "exam_weekday"
                 ELSE "regular_weekday"

ClassifyChain(d, exam) ==
    LET lw == _is_long_weekend_day(d)
    IN  IF lw = "OverflowError" THEN "OverflowError"
        ELSE IF lw = "True" THEN "long_weekend"
        ELSE IF IsHoliday(d) THEN "holiday"
        ELSE LET sb == _is_strong_bridge(d)
             IN  IF sb = "OverflowError" THEN "OverflowError"
                 ELSE IF sb = "True" THEN "bridge_strong"
                 ELSE IF ~IsDate(d + 1) THEN "OverflowError"
                 ELSE IF IsHoliday(d + 1) THEN "holiday_eve"
                 ELSE ClassifyByWeekday(d, exam)

\* DemandModel._classify_day
_classify_day(d) == ClassifyChain(d, TRUE)

\* The v2 classifier with the exam-season tag of v1 kept.
_classify_day_v2_exam(d) == ClassifyChain(d, TRUE)

\* DemandModelV2._classify_day: the same chain without exam_weekday.
_classify_day_v2(d) == ClassifyChain(d, FALSE)

DayTypes ==
    {"long_weekend", "holiday", "bridge_strong", "holiday_eve", "saturday",
     "sunday", "friday", "bridge_weak", "exam_weekday", "regular_weekday"}

-----------------------------------------------------------------------------
(* Exact decimal arithmetic.  A big number is a sequence of NLimbs limbs in *)
(* base 1000, least significant first, so that dropping k limbs divides by  *)
(* 10^(3k).  This is the arithmetic of the float expressions of the source, *)
(* carried out without rounding error.                                      *)

LimbBase == 10 * 10 * 10
NLimbs == 8

RECURSIVE ToLimbs(_, _)
ToLimbs(n, k) == IF k = 0 THEN <<>> ELSE <<n % LimbBase>> \o ToLimbs(n \div LimbBase, k - 1)

\* The big number of a non-negative integer.
Big(n) == ToLimbs(n, NLimbs)

RECURSIVE MulFrom(_, _, _, _)
MulFrom(x, m, i, carry) ==
    IF i > Len(x) THEN <<>>
    ELSE LET v == x[i] * m + carry
         IN  <<v % LimbBase>> \o MulFrom(x, m, i + 1, v \div LimbBase)

\* x * m for an integer 0 <= m <= 2000000.
BigMul(x, m) == MulFrom(x, m, 1, 0)

RECURSIVE CmpFrom(_, _, _)
CmpFrom(x, y, i) ==
    IF i = 0 THEN 0
    ELSE IF x[i] < y[i] THEN -1
    ELSE IF x[i] > y[i] THEN 1
    ELSE CmpFrom(x, y, i - 1)

BigLess(x, y) == CmpFrom(x, y, NLimbs) = -1
BigLeq(x, y) == CmpFrom(x, y, NLimbs) <= 0
BigMax(x, y) == IF BigLess(x, y) THEN y ELSE x
BigMin(x, y) == IF BigLess(y, x) THEN y ELSE x

\* The integer made of the limbs from the i-th on (it must fit an integer).
RECURSIVE HighFrom(_, _)
HighFrom(x, i) == IF i > Len(x) THEN 0 ELSE x[i] + LimbBase * HighFrom(x, i + 1)

\* round(x / 10^(3k)): round half to even, k >= 1.
BigRound(x, k) ==
    LET q       == HighFrom(x, k + 1)
        top     == x[k]
        lowzero == \A i \in 1..(k - 1) : x[i] = 0
        half    == LimbBase \div 2
        up      == \/ top > half
                   \/ top = half /\ ~lowzero
                   \/ top = half /\ lowzero /\ q % 2 = 1
    IN  IF up THEN q + 1 ELSE q

\* round(n / m) for integers n >= 0 and even m > 0: round half to even.
RoundDiv(n, m) ==
    LET q == n \div m
        r == n % m
    IN  IF 2 * r > m \/ (2 * r = m /\ q % 2 = 1) THEN q + 1 ELSE q

Max(a, b) == IF a >= b THEN a ELSE b
Min(a, b) == IF a <= b THEN a ELSE b

-----------------------------------------------------------------------------
(* Profile documents.  A JSON object is a function from its keys; a table   *)
(* lookup d.get(k, default) is Get.  Keys str(hour), str(month) and         *)
(* str(weekday) are modelled by the integer itself.  Scores, probabilities  *)
(* and ratios are in units of 1e-4.                                         *)

EmptyObject == <<>>

Get(obj, key, default) == IF key \in DOMAIN obj THEN obj[key] ELSE default

\* A function on 0..(Len(s) - 1) from a sequence: the keys "0", "1", ...
FromZero(s) == [k \in 0..(Len(s) - 1) |-> s[k + 1]]

\* The fallback profiles with Saturday scored like a regular weekday.
_fallback_profiles_flat_saturday ==
    [ hourly |-> FromZero(
          << 200,  100,  100,  100,  200,  500, 1500, 7000, 9500, 10000, 6500, 5000,
            4000, 3500, 3500, 4000, 5000, 4500, 3500, 2500, 1500,   800,  500,  200>>),
      day_of_week |-> FromZero(<<4500, 4000, 4000, 4500, 6000, 9500, 8000>>),
      monthly |-> <<5500, 5000, 7000, 6500, 10000, 4000, 2500, 3000, 3500, 8800, 8500, 6000>>,
      day_type |->
             "long_weekend"    :> 10000
          @@ "holiday"         :> 9000
          @@ "bridge_strong"   :> 8500
          @@ "holiday_eve"     :> 7000
          @@ "saturday"        :> 3500
          @@ "sunday"          :> 6500
          @@ "friday"          :> 5500
          @@ "bridge_weak"     :> 4500
          @@ "regular_weekday" :> 3500
          @@ "exam_weekday"    :> 1800 ]

\* DemandModel._fallback_profiles
_fallback_profiles ==
    [ hourly |-> FromZero(
          << 200,  100,  100,  100,  200,  500, 1500, 7000, 9500, 10000, 6500, 5000,
            4000, 3500, 3500, 4000, 5000, 4500, 3500, 2500, 1500,   800,  500,  200>>),
      day_of_week |-> FromZero(<<4500, 4000, 4000, 4500, 6000, 9500, 8000>>),
      monthly |-> <<5500, 5000, 7000, 6500, 10000, 4000, 2500, 3000, 3500, 8800, 8500, 6000>>,
      day_type |->
             "long_weekend"    :> 10000
          @@ "holiday"         :> 9000
          @@ "bridge_strong"   :> 8500
          @@ "holiday_eve"     :> 7000
          @@ "saturday"        :> 8000
          @@ "sunday"          :> 6500
          @@ "friday"          :> 5500
          @@ "bridge_weak"     :> 4500
          @@ "regular_weekday" :> 3500
          @@ "exam_weekday"    :> 1800 ]

(* Sample contents of data/demand_profiles.json.  The file is produced     *)
(* outside the engine; these are inputs.                                   *)

\* A profile as the analyzers write it: every value in [0, 1], four decimals.
DocTypical ==
    [ hourly |-> FromZero(
          << 213,  104,   98,   87,  195,  512, 1534, 6987, 9512, 10000, 6533, 5021,
            4012, 3488, 3519, 4066, 4987, 4523, 3541, 2496, 1502,   811,  497,  203>>),
      monthly |-> <<5512, 5023, 6977, 6512, 10000, 4021, 2533, 3012, 3499, 8811, 8467, 6034>>,
      day_type |->
             "long_weekend"    :> 10000
          @@ "holiday"         :> 9012
          @@ "holiday_eve"     :> 7033
          @@ "saturday"        :> 8021
          @@ "sunday"          :> 6514
          @@ "friday"          :> 5533
          @@ "bridge_weak"     :> 4478
          @@ "regular_weekday" :> 3521
          @@ "exam_weekday"    :> 1833,
      weather_by_month |->
             1  :> ("clear" :> 9500 @@ "rain" :> 500)
          @@ 3  :> ("clear" :> 8200 @@ "hot" :> 1800)
          @@ 4  :> ("clear" :> 7400 @@ "hot" :> 2600)
          @@ 5  :> ("clear" :> 6500 @@ "hot" :> 3000 @@ "rain" :> 500)
          @@ 6  :> ("clear" :> 4500 @@ "hot" :> 2500 @@ "rain" :> 2000 @@ "heavy_rain" :> 1000)
          @@ 7  :> ("clear" :> 4500 @@ "rain" :> 3500 @@ "heavy_rain" :> 2000)
          @@ 8  :> ("clear" :> 5400 @@ "rain" :> 3000 @@ "heavy_rain" :> 1600)
          @@ 9  :> ("clear" :> 7400 @@ "rain" :> 2200 @@ "heavy_rain" :> 400)
          @@ 10 :> ("clear" :> 9000 @@ "rain" :> 1000)
          @@ 11 :> ("clear" :> 10000) ]

\* A profile at the edges: missing keys, values outside [0, 1], a Sunday
\* score that blends to 0.399975 at 03:00 in a month without an entry, and
\* weather probabilities on and just past each threshold.
DocEdge ==
    [ hourly |-> (3 :> 0 @@ 9 :> 18000 @@ 18 :> 10000),
      monthly |-> (5 :> 15000 @@ 7 :> 0 @@ 10 :> 10000 @@ 12 :> -4000),
      day_type |->
             "long_weekend"    :> 25000
          @@ "holiday"         :> 10000
          @@ "sunday"          :> 5555
          @@ "regular_weekday" :> 0
          @@ "exam_weekday"    :> -2000,
      weather_by_month |->
             1  :> ("heavy_rain" :> 1500 @@ "rain" :> 1000 @@ "hot" :> 2000)
          @@ 2  :> ("heavy_rain" :> 1501 @@ "hot" :> 2001)
          @@ 3  :> ("rain" :> 2501)
          @@ 4  :> ("heavy_rain" :> 1500 @@ "rain" :> 1001)
          @@ 5  :> ("heavy_rain" :> 5000 @@ "rain" :> 5000)
          @@ 6  :> EmptyObject
          @@ 7  :> ("heavy_rain" :> 9000 @@ "hot" :> 9000)
          @@ 8  :> ("rain" :> 2500)
          @@ 10 :> ("rain" :> 3000 @@ "hot" :> 3000)
          @@ 11 :> ("heavy_rain" :> 2000 @@ "rain" :> 8000) ]

(* Sample contents of data/demand_profiles_duckdb.json. *)

DowScale == <<4500, 4000, 4000, 4500, 6000, 9500, 8000>>

DuckTypical ==
    [ hourly   |-> DocTypical.hourly,
      monthly  |-> DocTypical.monthly,
      day_type |-> DocTypical.day_type,
      weather_by_month |-> DocTypical.weather_by_month,
      hour_by_dow |->
          [dow \in 0..6 |-> [h \in 0..23 |->
              (DocTypical.hourly[h] * DowScale[dow + 1]) \div 9500]],
      dow_by_month |->
          [dow \in 0..6 |-> [m \in 1..12 |->
              (DocTypical.monthly[m] * DowScale[dow + 1]) \div 9500]],
      hour_by_day_type |->
          [t \in DOMAIN DocTypical.day_type |-> [h \in 0..23 |->
              (DocTypical.hourly[h] * DocTypical.day_type[t]) \div 10000]],
      weather_impact |->
             "clear"      :> [ratio_vs_clear |-> 10000]
          @@ "rain"       :> [ratio_vs_clear |-> 7012]
          @@ "heavy_rain" :> [ratio_vs_clear |-> 4033]
          @@ "hot"        :> [ratio_vs_clear |-> 9021] ]

DuckEdge ==
    [ hour_by_dow |-> (5 :> (9 :> 30000 @@ 3 :> -10000) @@ 1 :> (3 :> 0)),
      dow_by_month |-> (5 :> (10 :> 20000) @@ 1 :> (7 :> 0)),
      hour_by_day_type |-> ("long_weekend" :> (9 :> 20000) @@ "regular_weekday" :> (3 :> 0)),
      weather_by_month |->
             5  :> ("hot" :> 10000)
          @@ 7  :> ("heavy_rain" :> 10000)
          @@ 10 :> ("clear" :> 5000 @@ "storm" :> 5000),
      weather_impact |->
             "hot"        :> [ratio_vs_clear |-> 12500]
          @@ "heavy_rain" :> [ratio_vs_clear |-> 0]
          @@ "clear"      :> EmptyObject ]

\* A file is [exists, parses, json]: whether os.path.exists finds it, whether
\* json.load accepts its text, and the document json.load then returns.
Absent == [exists |-> FALSE, parses |-> FALSE, json |-> EmptyObject]
FileWith(doc) == [exists |-> TRUE, parses |-> TRUE, json |-> doc]

\* A file of zero bytes: json.load raises JSONDecodeError.
EmptyFile == [exists |-> TRUE, parses |-> FALSE, json |-> EmptyObject]

\* What json.load raises on text that is not JSON.
JSONDecodeError == [kind |-> "JSONDecodeError"]

\* The deployments the model is run on: what the two files hold.
Deployments ==
    { [v1 |-> Absent,               duckdb |-> Absent],
      [v1 |-> FileWith(DocTypical), duckdb |-> FileWith(DuckTypical)],
      [v1 |-> FileWith(DocEdge),    duckdb |-> Absent],
      [v1 |-> Absent,               duckdb |-> FileWith(DuckEdge)] }

-----------------------------------------------------------------------------
(* Construction *)

\* DemandModel.__init__
DemandModelInit(fs) ==
    IF fs.v1.exists
    THEN IF fs.v1.parses
         THEN [profiles |-> fs.v1.json, using_fallback |-> FALSE]
         ELSE JSONDecodeError
    ELSE [profiles |-> _fallback_profiles, using_fallback |-> TRUE]

\* DemandModelV2.__init__
DemandModelV2Init(fs) ==
    IF fs.duckdb.exists
    THEN IF fs.duckdb.parses
         THEN [profiles |-> fs.duckdb.json, using_fallback |-> FALSE]
         ELSE JSONDecodeError
    ELSE IF fs.v1.exists /\ ~fs.v1.parses THEN JSONDecodeError
    ELSE [profiles |-> IF fs.v1.exists THEN fs.v1.json ELSE EmptyObject,
          using_fallback |-> TRUE]

\* OverrideDetector.__init__
OverrideDetectorInit(fs) ==
    IF fs.v1.exists /\ ~fs.v1.parses THEN JSONDecodeError
    ELSE [weather_by_month |->
             IF fs.v1.exists THEN Get(fs.v1.json, "weather_by_month", EmptyObject)
             ELSE EmptyObject]

-----------------------------------------------------------------------------
(* app/config.py and app/demand_model_v2.py: blend weights, units of 1e-2 *)

WEIGHT_DAY_TYPE == 45
WEIGHT_SEASON == 30
WEIGHT_TIME_SLOT == 25

WEIGHT_CROSS_HOUR_DOW == 35
WEIGHT_CROSS_DOW_MONTH == 25
WEIGHT_CROSS_HOUR_DAYTYPE == 25
WEIGHT_WEATHER == 15

\* 1.0 as a score in units of 1e-4, of 1e-6 and of 1e-8.
One4 == 100 * 100
One6 == 100 * One4
One8 == 100 * One6

-----------------------------------------------------------------------------
(* Demand zones: classify_demand_zone, on a score in units of 1e-6 *)

classify_demand_zone(score6) ==
    IF score6 < 150000 THEN "Dead"
    ELSE IF score6 < 400000 THEN "Low"
    ELSE IF score6 < 600000 THEN "Normal"
    ELSE IF score6 < 800000 THEN "High"
    ELSE "Surge"

-----------------------------------------------------------------------------
(* DemandModel (v1) *)

_get_day_type_score(profiles, day_type) ==
    Get(Get(profiles, "day_type", EmptyObject), day_type, 3500)

_get_monthly_score(profiles, month) ==
    Get(Get(profiles, "monthly", EmptyObject), month, 5000)

_get_hourly_score(profiles, hour) ==
    Get(Get(profiles, "hourly", EmptyObject), hour, 3000)

\* The weighted sum of estimate_demand, units of 1e-6.
BlendV1(day_type_score, season_score, time_slot_score) ==
    WEIGHT_DAY_TYPE * day_type_score
        + WEIGHT_SEASON * season_score
        + WEIGHT_TIME_SLOT * time_slot_score

\* The clamp with its upper bound forgotten: max(0.0, score).
ClampScoreFloorOnly(score6) == Max(0, score6)

\* max(0.0, min(1.0, score)) on a score in units of 1e-6
ClampScore(score6) == Max(0, Min(One6, score6))

\* DemandModel.estimate_demand: a DemandResult, or the exception raised.
estimate_demand(model, d, hour) ==
    LET day_type == _classify_day(d)
    IN  IF day_type = "OverflowError" THEN [kind |-> "OverflowError"]
        ELSE
        LET day_type_score  == _get_day_type_score(model.profiles, day_type)
            season_score    == _get_monthly_score(model.profiles, Month(d))
            time_slot_score == _get_hourly_score(model.profiles, hour)
            score == ClampScore(BlendV1(day_type_score, season_score, time_slot_score))
        IN  [ kind            |-> "DemandResult",
              score           |-> RoundDiv(score, 100),
              zone            |-> classify_demand_zone(score),
              day_type        |-> day_type,
              day_type_score  |-> day_type_score,
              season_score    |-> season_score,
              time_slot_score |-> time_slot_score,
              hour            |-> hour,
              month           |-> Month(d),
              weekday         |-> Weekday(d),
              is_holiday      |-> IsHoliday(d),
              holiday_name    |-> HolidayNameOf(d) ]

-----------------------------------------------------------------------------
(* DemandModelV2 *)

_get_cross_score(profiles, profile_name, dim1, dim2, default) ==
    Get(Get(Get(profiles, profile_name, EmptyObject), dim1, EmptyObject), dim2, default)

_get_single_score(profiles, profile_name, key, default) ==
    Get(Get(profiles, profile_name, EmptyObject), key, default)

\* sum of prob * ratio over the month's weather kinds, units of 1e-8
RECURSIVE TotalRatio(_, _, _)
TotalRatio(month_weather, weather_impact, kinds) ==
    IF kinds = {} THEN 0
    ELSE LET k      == CHOOSE x \in kinds : TRUE
             impact == Get(weather_impact, k, EmptyObject)
             ratio  == Get(impact, "ratio_vs_clear", One4)
         IN  month_weather[k] * ratio
                 + TotalRatio(month_weather, weather_impact, kinds \ {k})

\* DemandModelV2._get_weather_score, units of 1e-8
_get_weather_score(profiles, month) ==
    LET weather_impact   == Get(profiles, "weather_impact", EmptyObject)
        weather_by_month == Get(profiles, "weather_by_month", EmptyObject)
        month_weather    == Get(weather_by_month, month, EmptyObject)
    IN  IF DOMAIN month_weather = {} \/ DOMAIN weather_impact = {}
        THEN One8 \div 2
        ELSE Max(0, Min(One8, TotalRatio(month_weather, weather_impact, DOMAIN month_weather)))

\* The weighted sum of the three cross scores, units of 1e-6; the weather
\* term is added by BlendV2.
CrossSum(hour_dow_score, dow_month_score, hour_daytype_score) ==
    WEIGHT_CROSS_HOUR_DOW * hour_dow_score
        + WEIGHT_CROSS_DOW_MONTH * dow_month_score
        + WEIGHT_CROSS_HOUR_DAYTYPE * hour_daytype_score

\* The blended, clamped score of DemandModelV2.estimate_demand as a pair
\* <<whole, frac>>: whole units of 1e-6 plus frac units of 1e-10, frac < 10^4.
BlendV2(cross6, weather8) ==
    LET w     == WEIGHT_WEATHER * weather8
        whole == cross6 + w \div One4
        frac  == w % One4
    IN  IF whole < 0 THEN <<0, 0>>
        ELSE IF whole >= One6 THEN <<One6, 0>>
        ELSE <<whole, frac>>

\* round(score, 4) of such a pair, units of 1e-4
RoundPair(p) ==
    LET q == p[1] \div 100
        r == (p[1] % 100) * One4 + p[2]
        half == 50 * One4
    IN  IF r > half \/ (r = half /\ q % 2 = 1) THEN q + 1 ELSE q

\* The day-of-week number the profile producer keys the cross tables by:
\* EXTRACT(DOW FROM ...) of the booking's start, 0 = Sunday ... 6 = Saturday.
dow(d) == (Weekday(d) + 1) % 7

\* DemandModelV2.estimate_demand
estimate_demand_v2(model, d, hour) ==
    LET day_type == _classify_day_v2(d)
    IN  IF day_type = "OverflowError" THEN [kind |-> "OverflowError"]
        ELSE
        LET weekday == Weekday(d)
            month   == Month(d)
            hour_dow_score     == _get_cross_score(model.profiles, "hour_by_dow", weekday, hour, 3500)
            dow_month_score    == _get_cross_score(model.profiles, "dow_by_month", weekday, month, 4000)
            hour_daytype_score == _get_cross_score(model.profiles, "hour_by_day_type", day_type, hour, 4000)
            weather_score      == _get_weather_score(model.profiles, month)
            score == BlendV2(CrossSum(hour_dow_score, dow_month_score, hour_daytype_score),
                             weather_score)
        IN  [ kind            |-> "DemandResult",
              score           |-> RoundPair(score),
              zone            |-> classify_demand_zone(score[1]),
              day_type        |-> day_type,
              day_type_score  |-> _get_single_score(model.profiles, "day_type", day_type, 3500),
              season_score    |-> _get_single_score(model.profiles, "monthly", month, 5000),
              time_slot_score |-> _get_single_score(model.profiles, "hourly", hour, 3000),
              hour            |-> hour,
              month           |-> month,
              weekday         |-> weekday,
              is_holiday      |-> IsHoliday(d),
              holiday_name    |-> HolidayNameOf(d) ]

-----------------------------------------------------------------------------
(* app/overrides.py: the override detector.  Factors are in units of 1e-2.  *)
(* A DetectedOverride is [name, factor, confidence, effect]; its name is    *)
(* the sequence of the parts of the f-string, and the free-text reason is   *)
(* left out.                                                                *)

\* The factors with the rain factor above 1.
OVERRIDE_FACTORS_RainSurcharge ==
       "long_weekend"      :> 150
    @@ "festival"          :> 140
    @@ "holiday"           :> 130
    @@ "holiday_eve"       :> 115
    @@ "rain_likely"       :> 115
    @@ "heavy_rain_likely" :> 70
    @@ "heatwave_likely"   :> 90

OVERRIDE_FACTORS ==
       "long_weekend"      :> 150
    @@ "festival"          :> 140
    @@ "holiday"           :> 130
    @@ "holiday_eve"       :> 115
    @@ "rain_likely"       :> 85
    @@ "heavy_rain_likely" :> 70
    @@ "heatwave_likely"   :> 90

MAX_OVERRIDE_FACTOR == 200

\* kw in s, for sequences of characters
Contains(s, kw) ==
    \E i \in 0..(Len(s) - Len(kw)) : SubSeq(s, i + 1, i + Len(kw)) = kw

\* any(kw in holiday_name.lower() for kw in [...])
is_festival(holiday_name) ==
    \E kw \in FESTIVAL_KEYWORDS : Contains(LowerChars[holiday_name], kw)

DetectedOverride(name, key, confidence, effect) ==
    [name |-> name, factor |-> OVERRIDE_FACTORS[key],
     confidence |-> confidence, effect |-> effect]

\* Section 1: the long-weekend override.
LongWeekendOverrides(day_type) ==
    IF day_type = "long_weekend"
    THEN <<DetectedOverride(<<"Long Weekend">>, "long_weekend", "high", "surge")>>
    ELSE <<>>

\* Sections 2 and 3 without the festival test: every holiday is generic.
CalendarOverridesAllGeneric(d, day_type) ==
    IF IsHoliday(d)
    THEN <<DetectedOverride(<<"Holiday: ", INDIAN_HOLIDAYS[d]>>, "holiday", "high", "surge")>>
    ELSE IF day_type = "holiday_eve" /\ IsHoliday(d + 1)
         THEN <<DetectedOverride(<<"Eve of ", INDIAN_HOLIDAYS[d + 1]>>, "holiday_eve", "high", "surge")>>
         ELSE <<>>

\* Sections 2 and 3 with the generic holiday override stacked on the
\* festival override instead of replaced by it.
CalendarOverridesStacked(d, day_type) ==
    IF IsHoliday(d)
    THEN IF is_festival(INDIAN_HOLIDAYS[d])
         THEN <<DetectedOverride(<<"Festival: ", INDIAN_HOLIDAYS[d]>>, "festival", "high", "surge"),
                DetectedOverride(<<"Holiday: ", INDIAN_HOLIDAYS[d]>>, "holiday", "high", "surge")>>
         ELSE <<DetectedOverride(<<"Holiday: ", INDIAN_HOLIDAYS[d]>>, "holiday", "high", "surge")>>
    ELSE IF day_type = "holiday_eve" /\ IsHoliday(d + 1)
         THEN <<DetectedOverride(<<"Eve of ", INDIAN_HOLIDAYS[d + 1]>>, "holiday_eve", "high", "surge")>>
         ELSE <<>>

\* Sections 2 and 3: festival or holiday, else holiday eve.  The caller has
\* checked that d + 1 is a date when day_type is "holiday_eve".
CalendarOverrides(d, day_type) ==
    IF IsHoliday(d)
    THEN IF is_festival(INDIAN_HOLIDAYS[d])
         THEN <<DetectedOverride(<<"Festival: ", INDIAN_HOLIDAYS[d]>>, "festival", "high", "surge")>>
         ELSE <<DetectedOverride(<<"Holiday: ", INDIAN_HOLIDAYS[d]>>, "holiday", "high", "surge")>>
    ELSE IF day_type = "holiday_eve" /\ IsHoliday(d + 1)
         THEN <<DetectedOverride(<<"Eve of ", INDIAN_HOLIDAYS[d + 1]>>, "holiday_eve", "high", "surge")>>
         ELSE <<>>

\* Section 4, first part, with the thresholds compared by >= instead of >.
RainOverridesNonStrict(weather_probs) ==
    LET rain_prob       == Get(weather_probs, "rain", 0) + Get(weather_probs, "heavy_rain", 0)
        heavy_rain_prob == Get(weather_probs, "heavy_rain", 0)
    IN  IF heavy_rain_prob >= 1500
        THEN <<DetectedOverride(<<"Heavy Rain Likely">>, "heavy_rain_likely", "medium", "discount")>>
        ELSE IF rain_prob >= 2500
        THEN <<DetectedOverride(<<"Rain Likely">>, "rain_likely", "medium", "discount")>>
        ELSE <<>>

\* Section 4, first part: heavy rain, else rain.
RainOverrides(weather_probs) ==
    LET rain_prob       == Get(weather_probs, "rain", 0) + Get(weather_probs, "heavy_rain", 0)
        heavy_rain_prob == Get(weather_probs, "heavy_rain", 0)
    IN  IF heavy_rain_prob > 1500
        THEN <<DetectedOverride(<<"Heavy Rain Likely">>, "heavy_rain_likely", "medium", "discount")>>
        ELSE IF rain_prob > 2500
        THEN <<DetectedOverride(<<"Rain Likely">>, "rain_likely", "medium", "discount")>>
        ELSE <<>>

\* Section 4, second part: heatwave.
HeatOverrides(weather_probs) ==
    IF Get(weather_probs, "hot", 0) > 2000
    THEN <<DetectedOverride(<<"Heatwave Likely">>, "heatwave_likely", "medium", "discount")>>
    ELSE <<>>

WeatherOverrides(weather_by_month, month) ==
    IF month \in DOMAIN weather_by_month
    THEN RainOverrides(weather_by_month[month]) \o HeatOverrides(weather_by_month[month])
    ELSE <<>>

\* The loop `combined *= o.factor`: the product of the factors, units of
\* 1e-2 to the power of the number of factors.
RECURSIVE FactorProduct(_)
FactorProduct(overrides) ==
    IF overrides = <<>> THEN 1
    ELSE Head(overrides).factor * FactorProduct(Tail(overrides))

RECURSIVE Pow100(_)
Pow100(k) == IF k = 0 THEN 1 ELSE 100 * Pow100(k - 1)

\* The product in units of 1e-8: at most four overrides fire (one per
\* section, two for the weather).
Combined(overrides) == FactorProduct(overrides) * Pow100(4 - Len(overrides))

\* The saturation with its upper branch left out.
SaturateNoCeiling(combined) ==
    LET lower == (One8 \div MAX_OVERRIDE_FACTOR) * 100
    IN  IF combined < lower THEN <<lower, TRUE>> ELSE <<combined, FALSE>>

\* The saturation: <<combined, was_capped>>, combined in units of 1e-8.
Saturate(combined) ==
    LET upper == MAX_OVERRIDE_FACTOR * One6
        lower == (One8 \div MAX_OVERRIDE_FACTOR) * 100
    IN  IF combined > upper THEN <<upper, TRUE>>
        ELSE IF combined < lower THEN <<lower, TRUE>>
        ELSE <<combined, FALSE>>

\* OverrideDetector.detect_overrides: (combined, overrides, was_capped), or
\* the exception raised.
detect_overrides(detector, d, day_type) ==
    IF ~IsHoliday(d) /\ day_type = "holiday_eve" /\ ~IsDate(d + 1)
    THEN [kind |-> "OverflowError"]
    ELSE LET overrides == LongWeekendOverrides(day_type)
                            \o CalendarOverrides(d, day_type)
                            \o WeatherOverrides(detector.weather_by_month, Month(d))
             sat == Saturate(Combined(overrides))
         IN  [ kind       |-> "Overrides",
               combined   |-> sat[1],
               overrides  |-> overrides,
               was_capped |-> sat[2] ]

-----------------------------------------------------------------------------
(* app/config.py: vehicles, multiplier bounds, duration tiers *)

VehicleTypes == {"scooter", "standard_bike", "premium_bike", "super_premium"}

\* rupees per hour
VEHICLE_BASE_RATES ==
       "scooter"       :> 60
    @@ "standard_bike" :> 80
    @@ "premium_bike"  :> 150
    @@ "super_premium" :> 250

\* rupees per hour
PRICE_FLOOR_RATES ==
       "scooter"       :> 40
    @@ "standard_bike" :> 50
    @@ "premium_bike"  :> 100
    @@ "super_premium" :> 160

\* rupees per hour
PRICE_CEILING_RATES ==
       "scooter"       :> 150
    @@ "standard_bike" :> 200
    @@ "premium_bike"  :> 375
    @@ "super_premium" :> 625

VEHICLE_DISPLAY_NAMES ==
       "scooter"       :> "Scooter (Activa, Jupiter)"
    @@ "standard_bike" :> "Standard Bike (Pulsar, FZ)"
    @@ "premium_bike"  :> "Premium Bike (RE Classic, Dominar)"
    @@ "super_premium" :> "Super Premium (Himalayan, KTM 390)"

\* units of 1e-2
MIN_MULTIPLIER == 70
MAX_MULTIPLIER == 200

\* BASELINE_DEMAND = 0.50, units of 1e-4
BASELINE_DEMAND == 5000

\* (threshold in hours, discount in units of 1e-2), longest first
DURATION_DISCOUNT_TIERS == << <<24, 70>>, <<8, 80>>, <<4, 90>> >>

LOW_CONFIDENCE_DAYS == 90

-----------------------------------------------------------------------------
(* app/price_engine.py: PriceEngine.calculate_price *)

\* rental_datetime < now, on [date, hour] pairs
Earlier(dt, n) == dt.date < n.date \/ (dt.date = n.date /\ dt.hour < n.hour)

\* The warnings with the far-future test written >= instead of >.
WarningsInclusive(d, hour, n) ==
    LET past == IF Earlier([date |-> d, hour |-> hour], n)
                THEN <<[kind |-> "historical", tier |-> "none"]>> ELSE <<>>
        days_ahead == d - n.date
        far  == IF days_ahead >= LOW_CONFIDENCE_DAYS
                THEN IF IsHoliday(d)
                     THEN <<[kind |-> "confidence", tier |-> "high", days_ahead |-> days_ahead]>>
                     ELSE IF Weekday(d) >= 5
                     THEN <<[kind |-> "confidence", tier |-> "medium", days_ahead |-> days_ahead]>>
                     ELSE <<[kind |-> "confidence", tier |-> "low", days_ahead |-> days_ahead]>>
                ELSE <<>>
    IN  past \o far

\* The warnings accumulated before the estimation.  A warning is its kind,
\* its confidence tier and, for a confidence warning, the number of days
\* ahead its text prints; the text of a historical warning prints the
\* rental datetime only.
Warnings(d, hour, n) ==
    LET past == IF Earlier([date |-> d, hour |-> hour], n)
                THEN <<[kind |-> "historical", tier |-> "none"]>> ELSE <<>>
        days_ahead == d - n.date
        far  == IF days_ahead > LOW_CONFIDENCE_DAYS
                THEN IF IsHoliday(d)
                     THEN <<[kind |-> "confidence", tier |-> "high", days_ahead |-> days_ahead]>>
                     ELSE IF Weekday(d) >= 5
                     THEN <<[kind |-> "confidence", tier |-> "medium", days_ahead |-> days_ahead]>>
                     ELSE <<[kind |-> "confidence", tier |-> "low", days_ahead |-> days_ahead]>>
                ELSE <<>>
    IN  past \o far

\* The map turned around: MAX_MULTIPLIER - score * (MAX_MULTIPLIER - MIN_MULTIPLIER).
SurgeMultiplierInverted(score) == MAX_MULTIPLIER * One4 - score * (MAX_MULTIPLIER - MIN_MULTIPLIER)

\* MIN_MULTIPLIER + score * (MAX_MULTIPLIER - MIN_MULTIPLIER), units of 1e-6,
\* for a score in units of 1e-4
SurgeMultiplier(score) == MIN_MULTIPLIER * One4 + score * (MAX_MULTIPLIER - MIN_MULTIPLIER)

\* A multiplier given in units of 1e-2, as a big number in units of 1e-14.
Mult14(m) == BigMul(BigMul(Big(m), One6), One6)

\* surge_multiplier * override_factor, units of 1e-14
RawMultiplier(surge, override_factor) == BigMul(Big(override_factor), surge)

\* The clamp with its ceiling forgotten: max(MIN_MULTIPLIER, raw_multiplier).
FinalMultiplierNoCeiling(raw_multiplier) == BigMax(Mult14(MIN_MULTIPLIER), raw_multiplier)

\* max(MIN_MULTIPLIER, min(MAX_MULTIPLIER, raw_multiplier))
FinalMultiplier(raw_multiplier) ==
    BigMax(Mult14(MIN_MULTIPLIER), BigMin(Mult14(MAX_MULTIPLIER), raw_multiplier))

\* The loop over DURATION_DISCOUNT_TIERS from tier i on, units of 1e-2.
RECURSIVE DiscountFrom(_, _)
DiscountFrom(duration_hours, i) ==
    IF i > Len(DURATION_DISCOUNT_TIERS) THEN 100
    ELSE IF duration_hours >= DURATION_DISCOUNT_TIERS[i][1] THEN DURATION_DISCOUNT_TIERS[i][2]
    ELSE DiscountFrom(duration_hours, i + 1)

\* The tiers scanned shortest threshold first, from tier i down.
RECURSIVE DiscountUpFrom(_, _)
DiscountUpFrom(duration_hours, i) ==
    IF i < 1 THEN 100
    ELSE IF duration_hours >= DURATION_DISCOUNT_TIERS[i][1] THEN DURATION_DISCOUNT_TIERS[i][2]
    ELSE DiscountUpFrom(duration_hours, i - 1)

DurationDiscountShortestFirst(duration_hours) ==
    DiscountUpFrom(duration_hours, Len(DURATION_DISCOUNT_TIERS))

\* No tier at all: every duration pays the full rate.
DurationDiscountNone(duration_hours) == 100

DurationDiscount(duration_hours) == DiscountFrom(duration_hours, 1)

\* The rate with the duration discount left out, units of 1e-16.
EffectiveHourlyUndiscounted(base_rate, final_multiplier, duration_discount) ==
    BigMul(BigMul(final_multiplier, base_rate), 100)

\* base_rate * final_multiplier * duration_discount, units of 1e-16
EffectiveHourly(base_rate, final_multiplier, duration_discount) ==
    BigMul(BigMul(final_multiplier, base_rate), duration_discount)

\* effective_hourly * duration_hours, units of 1e-16
TotalPrice(effective_hourly, duration_hours) == BigMul(effective_hourly, duration_hours)

\* round(x, 2) of an amount in units of 1e-16: paise
Round2(amount) == BigRound(BigMul(amount, 10), 5)

\* round(x, 4) of a multiplier in units of 1e-14
Round4(mult) == BigRound(BigMul(mult, 100), 4)

\* int((1 - duration_discount) * 100) in binary floating point: (1 - 0.9) * 100
\* and (1 - 0.8) * 100 fall just below 10 and 20 and truncate to 9 and 19,
\* (1 - 0.7) * 100 falls just above 30.
DiscountPct(duration_discount) ==
    CASE duration_discount = 90 -> 9
      [] duration_discount = 80 -> 19
      [] OTHER -> 100 - duration_discount

\* The override block that says nothing when no override is detected.
ExplainOverridesSilent(detected_overrides, override_capped, override_factor) ==
    IF detected_overrides = <<>>
    THEN <<>>
    ELSE <<[step |-> "overrides", count |-> Len(detected_overrides)]>>
         \o [i \in 1..Len(detected_overrides) |->
                [step       |-> "override",
                 direction  |-> IF detected_overrides[i].effect = "discount" THEN "down" ELSE "up",
                 name       |-> detected_overrides[i].name,
                 factor     |-> detected_overrides[i].factor,
                 confidence |-> detected_overrides[i].confidence]]
         \o (IF override_capped
             THEN <<[step |-> "capped", factor |-> RoundDiv(override_factor, One6)]>>
             ELSE <<>>)

\* The lines of the override block of the explanation.
ExplainOverrides(detected_overrides, override_capped, override_factor) ==
    IF detected_overrides = <<>>
    THEN <<[step |-> "no_overrides"]>>
    ELSE <<[step |-> "overrides", count |-> Len(detected_overrides)]>>
         \o [i \in 1..Len(detected_overrides) |->
                [step       |-> "override",
                 direction  |-> IF detected_overrides[i].effect = "discount" THEN "down" ELSE "up",
                 name       |-> detected_overrides[i].name,
                 factor     |-> detected_overrides[i].factor,
                 confidence |-> detected_overrides[i].confidence]]
         \o (IF override_capped
             THEN <<[step |-> "capped", factor |-> RoundDiv(override_factor, One6)]>>
             ELSE <<>>)

\* PriceEngine._build_explanation: the steps in order, each with the values
\* its text prints; a value printed with :.2f is in units of 1e-2.
_build_explanation(v_type, base_rate, duration, demand, surge, override_factor, detected_overrides, override_capped, final_mult, duration_discount, effective_hourly, total) ==
    <<[step |-> "vehicle", name |-> VEHICLE_DISPLAY_NAMES[v_type], base_rate |-> base_rate],
      [step |-> "day_type", day_type |-> demand.day_type, weekday |-> demand.weekday,
       score |-> RoundDiv(demand.day_type_score, 100)],
      [step |-> "season", month |-> demand.month, score |-> RoundDiv(demand.season_score, 100)],
      [step |-> "time_slot", hour |-> demand.hour,
       score |-> RoundDiv(demand.time_slot_score, 100)]>>
    \o (IF demand.is_holiday /\ demand.holiday_name # "None"
        THEN <<[step |-> "holiday", name |-> demand.holiday_name]>> ELSE <<>>)
    \o <<[step |-> "blended", score |-> RoundDiv(demand.score, 100), zone |-> demand.zone],
         [step |-> "surge", multiplier |-> RoundDiv(surge, One4)]>>
    \o ExplainOverrides(detected_overrides, override_capped, override_factor)
    \o <<[step |-> "final", multiplier |-> BigRound(final_mult, 4),
          lower |-> MIN_MULTIPLIER, upper |-> MAX_MULTIPLIER]>>
    \o (IF duration_discount < 100
        THEN <<[step |-> "duration_discount", duration |-> duration,
                pct |-> DiscountPct(duration_discount)]>>
        ELSE <<>>)
    \o <<[step |-> "effective", rate |-> Round2(effective_hourly), duration |-> duration,
          total |-> Round2(total)]>>

\* The steps after input validation, for a demand estimate that returned.
PriceResult(v_type, duration_hours, d, hour, demand_result, detected, warnings) ==
    LET surge_multiplier  == SurgeMultiplier(demand_result.score)
        override_factor   == detected.combined
        raw_multiplier    == RawMultiplier(surge_multiplier, override_factor)
        final_multiplier  == FinalMultiplier(raw_multiplier)
        duration_discount == DurationDiscount(duration_hours)
        base_rate         == VEHICLE_BASE_RATES[v_type]
        effective_hourly  == EffectiveHourly(base_rate, final_multiplier, duration_discount)
        total_price       == TotalPrice(effective_hourly, duration_hours)
    IN  [ kind                  |-> "PriceResult",
          final_price           |-> Round2(total_price),
          hourly_rate           |-> base_rate,
          effective_hourly_rate |-> Round2(effective_hourly),
          vehicle_type          |-> v_type,
          vehicle_name          |-> VEHICLE_DISPLAY_NAMES[v_type],
          base_rate             |-> base_rate,
          duration_hours        |-> duration_hours,
          rental_datetime       |-> [date |-> d, hour |-> hour],
          demand                |-> demand_result,
          surge_multiplier      |-> RoundDiv(surge_multiplier, 100),
          override_factor       |-> RoundDiv(override_factor, One4),
          final_multiplier      |-> Round4(final_multiplier),
          duration_discount     |-> duration_discount,
          overrides_detected    |-> detected.overrides,
          override_was_capped   |-> detected.was_capped,
          warnings              |-> warnings,
          explanation           |-> _build_explanation(
                                        v_type, base_rate, duration_hours, demand_result,
                                        surge_multiplier, override_factor, detected.overrides,
                                        detected.was_capped, final_multiplier, duration_discount,
                                        effective_hourly, total_price),
          \* the unrounded values of the call's local variables
          locals                |-> [ surge_multiplier |-> surge_multiplier,
                                      override_factor  |-> override_factor,
                                      raw_multiplier   |-> raw_multiplier,
                                      final_multiplier |-> final_multiplier,
                                      effective_hourly |-> effective_hourly,
                                      total_price      |-> total_price ] ]

\* A duration argument is [is_int, value]: the float 2.0 is [FALSE, 2].
ValidDuration(duration) == duration.is_int /\ duration.value >= 1

\* calculate_price with the demand estimated at the hour of the clock
\* instead of the hour of the rental.
calculate_price_at_clock(model, detector, n, d, hour, vehicle_type, duration) ==
    IF vehicle_type \notin VehicleTypes
    THEN [kind |-> "ValueError", about |-> "vehicle_type"]
    ELSE IF ~ValidDuration(duration)
    THEN [kind |-> "ValueError", about |-> "duration_hours"]
    ELSE LET demand_result == estimate_demand(model, d, n.hour)
         IN  IF demand_result.kind # "DemandResult" THEN demand_result
             ELSE LET detected == detect_overrides(detector, d, demand_result.day_type)
                  IN  IF detected.kind # "Overrides" THEN detected
                      ELSE PriceResult(vehicle_type, duration.value, d, hour,
                                       demand_result, detected, Warnings(d, hour, n))

\* PriceEngine.calculate_price: a PriceResult, or the exception raised.
calculate_price(model, detector, n, d, hour, vehicle_type, duration) ==
    IF vehicle_type \notin VehicleTypes
    THEN [kind |-> "ValueError", about |-> "vehicle_type"]
    ELSE IF ~ValidDuration(duration)
    THEN [kind |-> "ValueError", about |-> "duration_hours"]
    ELSE LET demand_result == estimate_demand(model, d, hour)
         IN  IF demand_result.kind # "DemandResult" THEN demand_result
             ELSE LET detected == detect_overrides(detector, d, demand_result.day_type)
                  IN  IF detected.kind # "Overrides" THEN detected
                      ELSE PriceResult(vehicle_type, duration.value, d, hour,
                                       demand_result, detected, Warnings(d, hour, n))

-----------------------------------------------------------------------------
(* Inputs *)

\* How far the modelled dates reach before 2024-01-01 and past 2026-12-31,
\* the span of the holiday calendar.
SpanMargin == 7

\* How many dates at each end of the date range are modelled.
EdgeMargin == 4

\* The longest rental, in hours.
MaxDuration == 50

\* How many days each window of rental dates of the price calls has.
WindowDays == 31

CalendarFirst == Ymd2Ord(2024, 1, 1)
CalendarLast == Ymd2Ord(2026, 12, 31)

CalendarDates == (CalendarFirst - SpanMargin)..(CalendarLast + SpanMargin)

EdgeDates ==
    (MIN_ORDINAL..(MIN_ORDINAL + EdgeMargin - 1))
        \cup ((MAX_ORDINAL - EdgeMargin + 1)..MAX_ORDINAL)

AllDates == CalendarDates \cup EdgeDates

July2025 == Ymd2Ord(2025, 7, 1)
October2025 == Ymd2Ord(2025, 10, 1)

\* The rental dates of the price calls: a monsoon window, a festival window
\* and the ends of the date range.
PriceDates ==
    (July2025..(July2025 + WindowDays - 1))
        \cup (October2025..(October2025 + WindowDays - 1))
        \cup EdgeDates

SampleHours == {3, 9, 18}

VehicleInputs == VehicleTypes \cup {"flying_car"}

IntDuration(v) == [is_int |-> TRUE, value |-> v]
FloatDuration(v) == [is_int |-> FALSE, value |-> v]

\* One duration per discount tier, and the invalid ones.
SampleDurations ==
    {IntDuration(v) : v \in {-5, 0, 1, 4, 8, 24}} \cup {FloatDuration(2)}

AllDurations ==
    {IntDuration(v) : v \in (-1)..MaxDuration} \cup {FloatDuration(2)}

\* datetime.now(): 2025-07-10 12:00
NowInputs == {[date |-> Ymd2Ord(2025, 7, 10), hour |-> 12]}

Pending == [kind |-> "pending"]

\* The state after construction of the models, the detector and the engine
\* on the files `fs`, with the call `c` about to be made.
Constructed(fs, n, c) ==
    /\ files = fs
    /\ demand_model = DemandModelInit(fs)
    /\ demand_model_v2 = DemandModelV2Init(fs)
    /\ override_detector = OverrideDetectorInit(fs)
    /\ now = n
    /\ call = c
    /\ ret = Pending
    /\ returned = <<>>

PriceCall(d, hour, vehicle_type, duration) ==
    [op |-> "calculate_price", date |-> d, hour |-> hour,
     vehicle_type |-> vehicle_type, duration |-> duration]

DemandCall(op, d, hour) == [op |-> op, date |-> d, hour |-> hour]

OverridesCall(d, day_type) == [op |-> "detect_overrides", date |-> d, day_type |-> day_type]

\* How many calls one engine serves in a row.
MaxCalls == 2

\* The clock readings of an engine that serves several calls: 2025-07-10
\* 12:00, two days later, 2025-08-01 08:00 and 2025-11-01 12:00.
RepeatNows ==
    { [date |-> Ymd2Ord(2025, 7, 10), hour |-> 12],
      [date |-> Ymd2Ord(2025, 7, 12), hour |-> 12],
      [date |-> Ymd2Ord(2025, 8, 1),  hour |-> 8],
      [date |-> Ymd2Ord(2025, 11, 1), hour |-> 12] }

\* The rentals it is asked about: Diwali 2025-10-20 and Tuesday 2025-07-15,
\* at 09:00 or 18:00, one scooter for an hour or a day.
RepeatCalls ==
    { PriceCall(d, hour, "scooter", IntDuration(dur)) :
        d \in {Ymd2Ord(2025, 10, 20), Ymd2Ord(2025, 7, 15)}, hour \in {9, 18}, dur \in {1, 24} }

-----------------------------------------------------------------------------
(* Actions: one per entry point *)

CalculatePrice ==
    /\ call.op = "calculate_price"
    /\ ret.kind = "pending"
    /\ ret' = calculate_price(demand_model, override_detector, now,
                              call.date, call.hour, call.vehicle_type, call.duration)
    /\ UNCHANGED <<files, demand_model, demand_model_v2, override_detector, now, call, returned>>

EstimateDemand ==
    /\ call.op = "estimate_demand"
    /\ ret.kind = "pending"
    /\ ret' = estimate_demand(demand_model, call.date, call.hour)
    /\ UNCHANGED <<files, demand_model, demand_model_v2, override_detector, now, call, returned>>

EstimateDemandV2 ==
    /\ call.op = "estimate_demand_v2"
    /\ ret.kind = "pending"
    /\ ret' = estimate_demand_v2(demand_model_v2, call.date, call.hour)
    /\ UNCHANGED <<files, demand_model, demand_model_v2, override_detector, now, call, returned>>

DetectOverrides ==
    /\ call.op = "detect_overrides"
    /\ ret.kind = "pending"
    /\ ret' = detect_overrides(override_detector, call.date, call.day_type)
    /\ UNCHANGED <<files, demand_model, demand_model_v2, override_detector, now, call, returned>>

\* The caller's next call to the same engine, at the same or a later clock
\* reading; the call that returned joins `returned`.
NextCall ==
    /\ ret.kind # "pending"
    /\ Len(returned) < MaxCalls - 1
    /\ returned' = Append(returned, [call |-> call, now |-> now, ret |-> ret])
    /\ \E n \in RepeatNows, c \in RepeatCalls :
           /\ ~Earlier(n, now)
           /\ now' = n
           /\ call' = c
    /\ ret' = Pending
    /\ UNCHANGED <<files, demand_model, demand_model_v2, override_detector>>

-----------------------------------------------------------------------------
(* Specifications *)

\* Price calls over the sampled dates, hours, vehicles and durations.
Init ==
    \E fs \in Deployments, n \in NowInputs, d \in PriceDates, hour \in SampleHours,
       v \in VehicleInputs, dur \in SampleDurations :
        Constructed(fs, n, PriceCall(d, hour, v, dur))

Next == CalculatePrice

Spec == Init /\ [][Next]_vars

\* Price calls over every duration, on one day of each window.
InitDuration ==
    \E fs \in Deployments, n \in NowInputs, d \in {July2025 + 14, October2025 + 19},
       v \in VehicleInputs, dur \in AllDurations :
        Constructed(fs, n, PriceCall(d, 9, v, dur))

SpecDuration == InitDuration /\ [][Next]_vars

\* The Tuesdays of the holiday calendar's span.
Tuesdays == {d \in CalendarFirst..CalendarLast : Weekday(d) = 1}

\* Price calls at 09:00 on every Tuesday of the span.
InitTuesdays ==
    \E fs \in Deployments, n \in NowInputs, d \in Tuesdays,
       v \in VehicleTypes, dur \in {1, 24} :
        Constructed(fs, n, PriceCall(d, 9, v, IntDuration(dur)))

SpecTuesdays == InitTuesdays /\ [][Next]_vars

\* One engine serving MaxCalls price calls in a row while the clock moves.
InitRepeat ==
    \E fs \in Deployments, n \in RepeatNows, c \in RepeatCalls :
        Constructed(fs, n, c)

NextRepeat == CalculatePrice \/ NextCall

SpecRepeat == InitRepeat /\ [][NextRepeat]_vars

\* Demand estimates of both models over every modelled date.
InitDemand ==
    \E fs \in Deployments, n \in NowInputs, d \in AllDates, hour \in SampleHours,
       op \in {"estimate_demand", "estimate_demand_v2"} :
        Constructed(fs, n, DemandCall(op, d, hour))

NextDemand == EstimateDemand \/ EstimateDemandV2

SpecDemand == InitDemand /\ [][NextDemand]_vars

\* The day types a detection is called with for a date: the one the
\* classifier gives it, and the ones the detector tests for.
DayTypeInputs(d) ==
    {"long_weekend", "holiday_eve", "regular_weekday"}
        \cup (IF _classify_day(d) = "OverflowError" THEN {} ELSE {_classify_day(d)})

InitOverrides ==
    \E fs \in Deployments, n \in NowInputs, d \in AllDates :
        \E day_type \in DayTypeInputs(d) :
            Constructed(fs, n, OverridesCall(d, day_type))

NextOverrides == DetectOverrides

SpecOverrides == InitOverrides /\ [][NextOverrides]_vars

\* The data directories a store is built over: the deployments above, a
\* profile file of zero bytes in either place, and a profile file holding {}.
StoreDeployments ==
    Deployments \cup
        { [v1 |-> EmptyFile,             duckdb |-> Absent],
          [v1 |-> Absent,                duckdb |-> EmptyFile],
          [v1 |-> FileWith(EmptyObject), duckdb |-> Absent] }

\* No object constructed yet.
Unbuilt == [kind |-> "unbuilt"]

\* DemandModel(), DemandModelV2() and OverrideDetector() over the data
\* directory, as main.py and PriceEngine.__init__ construct them; the call
\* raises what the first failing constructor raises.
Construct ==
    /\ call.op = "construct"
    /\ ret.kind = "pending"
    /\ demand_model' = DemandModelInit(files)
    /\ demand_model_v2' = DemandModelV2Init(files)
    /\ override_detector' = OverrideDetectorInit(files)
    /\ ret' = IF \/ DemandModelInit(files) = JSONDecodeError
                 \/ DemandModelV2Init(files) = JSONDecodeError
                 \/ OverrideDetectorInit(files) = JSONDecodeError
              THEN JSONDecodeError
              ELSE [kind |-> "Constructed"]
    /\ UNCHANGED <<files, now, returned>>
    /\ UNCHANGED call

\* One of the three profile lookups of a constructed DemandModel.
Lookup ==
    /\ ret.kind \in {"Constructed", "Lookup"}
    /\ \/ \E day_type \in DayTypes :
              /\ call' = [op |-> "_get_day_type_score", day_type |-> day_type]
              /\ ret' = [kind |-> "Lookup",
                         value |-> _get_day_type_score(demand_model.profiles, day_type)]
       \/ \E month \in 1..12 :
              /\ call' = [op |-> "_get_monthly_score", month |-> month]
              /\ ret' = [kind |-> "Lookup",
                         value |-> _get_monthly_score(demand_model.profiles, month)]
       \/ \E hour \in 0..23 :
              /\ call' = [op |-> "_get_hourly_score", hour |-> hour]
              /\ ret' = [kind |-> "Lookup",
                         value |-> _get_hourly_score(demand_model.profiles, hour)]
    /\ UNCHANGED <<files, demand_model, demand_model_v2, override_detector, now, returned>>

\* Construction of the stores over every data directory, then lookups.
InitStore ==
    /\ files \in StoreDeployments
    /\ demand_model = Unbuilt
    /\ demand_model_v2 = Unbuilt
    /\ override_detector = Unbuilt
    /\ now \in NowInputs
    /\ call = [op |-> "construct"]
    /\ ret = Pending
    /\ returned = <<>>

NextStore == Construct \/ Lookup

SpecStore == InitStore /\ [][NextStore]_vars

-----------------------------------------------------------------------------
(* Properties *)

\* C1: whatever the profile tables hold and whatever overrides fire, the
\* final multiplier of every PriceResult that calculate_price returns lies
\* between MIN_MULTIPLIER (0.70) and MAX_MULTIPLIER (2.00): the value the
\* call computes, and the value rounded to four places that it reports.
C1_MultiplierBound ==
    ret.kind = "PriceResult" =>
        /\ BigLeq(Mult14(MIN_MULTIPLIER), ret.locals.final_multiplier)
        /\ BigLeq(ret.locals.final_multiplier, Mult14(MAX_MULTIPLIER))
        /\ ret.final_multiplier >= MIN_MULTIPLIER * 100
        /\ ret.final_multiplier <= MAX_MULTIPLIER * 100

\* A call whose overrides push surge x override above 2.00, returned at 2.00.
C1_CeilingReached ==
    /\ ret.kind = "PriceResult"
    /\ ret.overrides_detected # <<>>
    /\ BigLess(Mult14(MAX_MULTIPLIER), ret.locals.raw_multiplier)
    /\ ret.final_multiplier = MAX_MULTIPLIER * 100

\* Every value of a table of scalars lies in [0, 1].
InUnit(table) == \A k \in DOMAIN table : table[k] >= 0 /\ table[k] <= One4

\* Every value of the cross tables of a v2 profile document lies in [0, 1].
CrossTablesInUnit(profiles) ==
    \A t \in {"hour_by_dow", "dow_by_month", "hour_by_day_type", "weather_by_month"} :
        \A k \in DOMAIN Get(profiles, t, EmptyObject) : InUnit(profiles[t][k])

\* C2: the score of every DemandResult that estimate_demand returns, of the
\* single-dimension model and of the cross-dimensional model, satisfies
\* 0 <= score <= 1.  It holds whatever the tables hold, so in particular
\* when every table value lies in [0, 1].
C2_ScoreBound ==
    ret.kind = "DemandResult" => ret.score >= 0 /\ ret.score <= One4

\* The cross-dimensional model, on cross tables with values in [0, 1], has
\* returned a score.
C2_UnitTablesScored ==
    /\ call.op = "estimate_demand_v2"
    /\ ret.kind = "DemandResult"
    /\ "hour_by_dow" \in DOMAIN demand_model_v2.profiles
    /\ CrossTablesInUnit(demand_model_v2.profiles)
    /\ ret.score > 0
    /\ ret.score < One4

\* The input of the price call is invalid: the vehicle type is not one of
\* the four categories, or the duration is not an integer >= 1.
InvalidInput ==
    \/ call.vehicle_type \notin VehicleTypes
    \/ ~(call.duration.is_int /\ call.duration.value >= 1)

\* C3: calculate_price fails with the invalid-input error (ValueError)
\* exactly when the input is invalid, and returns a PriceResult for every
\* other input.
C3_FailsExactlyOnInvalidInput ==
    (call.op = "calculate_price" /\ ret.kind # "pending") =>
        /\ ret.kind = "ValueError" <=> InvalidInput
        /\ ret.kind = "PriceResult" <=> ~InvalidInput

\* A valid input on which calculate_price raises OverflowError.
C3_OverflowOnValidInput ==
    /\ call.op = "calculate_price"
    /\ ~InvalidInput
    /\ ret.kind = "OverflowError"

\* C4: in every call that returns, final_multiplier is surge x override
\* clamped into [MIN_MULTIPLIER, MAX_MULTIPLIER], the effective hourly rate
\* is base_rate x final_multiplier x duration_discount (the discount scales
\* the clamped multiplier, it is not clamped itself), and the total is that
\* rate x duration_hours; the result reports the rate and the total rounded
\* to two places and the multiplier rounded to four.
C4_PriceComposition ==
    ret.kind = "PriceResult" =>
        LET loc  == ret.locals
            base == VEHICLE_BASE_RATES[call.vehicle_type]
        IN  /\ loc.raw_multiplier = BigMul(Big(loc.override_factor), loc.surge_multiplier)
            /\ loc.final_multiplier =
                   BigMax(Mult14(MIN_MULTIPLIER), BigMin(Mult14(MAX_MULTIPLIER), loc.raw_multiplier))
            /\ loc.effective_hourly =
                   BigMul(BigMul(loc.final_multiplier, base), ret.duration_discount)
            /\ loc.total_price = BigMul(loc.effective_hourly, call.duration.value)
            /\ ret.hourly_rate = base
            /\ ret.effective_hourly_rate = Round2(loc.effective_hourly)
            /\ ret.final_price = Round2(loc.total_price)
            /\ ret.final_multiplier = Round4(loc.final_multiplier)

\* A discounted rental whose multiplier was clamped to 2.00: the rate, in
\* paise, is base x 2.00 x discount.
C4_DiscountAfterClamp ==
    /\ ret.kind = "PriceResult"
    /\ BigLess(Mult14(MAX_MULTIPLIER), ret.locals.raw_multiplier)
    /\ ret.duration_discount < 100
    /\ ret.effective_hourly_rate = 2 * ret.base_rate * ret.duration_discount

\* C5: for every integer duration d >= 1 the duration discount is 0.70 when
\* d >= 24, 0.80 when 8 <= d < 24, 0.90 when 4 <= d < 8 and 1.0 when d < 4;
\* so 2h gives 1.0, 4h 0.90, 8h 0.80, 24h 0.70 and 48h 0.70.
C5_DurationTiers ==
    ret.kind = "PriceResult" =>
        LET d == call.duration.value
        IN  /\ d >= 1
            /\ ret.duration_discount =
                   IF d >= 24 THEN 70
                   ELSE IF d >= 8 THEN 80
                   ELSE IF d >= 4 THEN 90
                   ELSE 100
            /\ d = 2 => ret.duration_discount = 100
            /\ d = 4 => ret.duration_discount = 90
            /\ d = 8 => ret.duration_discount = 80
            /\ d \in {24, 48} => ret.duration_discount = 70

\* A 48-hour rental priced at the 0.70 tier.
C5_TwoDayRental ==
    /\ ret.kind = "PriceResult"
    /\ call.duration.value = 48
    /\ ret.duration_discount = 70

\* The priority chains of the two models.
ChainV1 ==
    <<"long_weekend", "holiday", "bridge_strong", "holiday_eve", "saturday",
      "sunday", "friday", "bridge_weak", "exam_weekday", "regular_weekday">>

ChainV2 ==
    <<"long_weekend", "holiday", "bridge_strong", "holiday_eve", "saturday",
      "sunday", "friday", "bridge_weak", "regular_weekday">>

\* The rule of each tag, on its own.
RuleHolds(tag, d) ==
    CASE tag = "long_weekend"  -> _is_long_weekend_day(d) = "True"
      [] tag = "holiday"       -> IsHoliday(d)
      [] tag = "bridge_strong" -> _is_strong_bridge(d) = "True"
      [] tag = "holiday_eve"   -> IsHoliday(d + 1)
      [] tag = "saturday"      -> Weekday(d) = 5
      [] tag = "sunday"        -> Weekday(d) = 6
      [] tag = "friday"        -> Weekday(d) = 4
      [] tag = "bridge_weak"   -> _is_weak_bridge(d) = "True"
      [] tag = "exam_weekday"  -> Month(d) \in {3, 4} /\ Weekday(d) < 5
      [] OTHER                 -> TRUE

\* The first tag of the chain whose rule the date satisfies.
FirstMatch(chain, d) ==
    chain[CHOOSE i \in 1..Len(chain) :
              RuleHolds(chain[i], d) /\ \A j \in 1..(i - 1) : ~RuleHolds(chain[j], d)]

\* C6: the day type of every estimate that returns is one tag of the chain:
\* the first tag of long_weekend, holiday, bridge_strong, holiday_eve,
\* saturday, sunday, friday, bridge_weak, exam_weekday (v1 only),
\* regular_weekday whose rule the date satisfies.
C6_PriorityChain ==
    ret.kind = "DemandResult" =>
        /\ ret.day_type \in DayTypes
        /\ ret.day_type =
               FirstMatch(IF call.op = "estimate_demand" THEN ChainV1 ELSE ChainV2, call.date)

\* A Friday within two days of a Wednesday holiday: friday wins over
\* bridge_weak.
C6_FridayOverWeakBridge ==
    /\ ret.kind = "DemandResult"
    /\ ret.day_type = "friday"
    /\ RuleHolds("bridge_weak", call.date)

\* The stretch of a holiday, by the holiday's weekday.
Stretch(h) ==
    CASE Weekday(h) = 0 -> {h - 2, h - 1, h}
      [] Weekday(h) = 4 -> {h, h + 1, h + 2}
      [] Weekday(h) = 1 -> {h - 3, h - 2, h - 1, h}
      [] Weekday(h) = 3 -> {h, h + 1, h + 2, h + 3}
      [] OTHER          -> {}

InSomeStretch(d) == \E h \in HolidayDates : d \in Stretch(h)

\* C7: a date is classified long_weekend if and only if it lies in the
\* stretch of some calendar holiday (Sat-Mon of a Monday holiday, Fri-Sun of
\* a Friday holiday, Sat-Tue of a Tuesday holiday, Thu-Sun of a Thursday
\* holiday); so the Saturday, Sunday and Monday of a Monday holiday and the
\* Monday before a Tuesday holiday are long_weekend.
C7_LongWeekendIffInStretch ==
    ret.kind = "DemandResult" =>
        LET d == call.date
        IN  /\ ret.day_type = "long_weekend" <=> InSomeStretch(d)
            /\ (\E h \in {d, d + 1, d + 2} : IsHoliday(h) /\ Weekday(h) = 0)
                   => ret.day_type = "long_weekend"
            /\ (Weekday(d) = 0 /\ IsHoliday(d + 1)) => ret.day_type = "long_weekend"

\* The Saturday three days before a Tuesday holiday, classified
\* long_weekend: the holiday is at the far end of the scan.
C7_SaturdayBeforeTuesdayHoliday ==
    /\ ret.kind = "DemandResult"
    /\ ret.day_type = "long_weekend"
    /\ Weekday(call.date) = 5
    /\ IsHoliday(call.date + 3)
    /\ \A h \in HolidayDates : h # call.date + 3 => call.date \notin Stretch(h)

\* How many of the overrides carry the name that starts with `first`.
CountNamed(overrides, first) ==
    Cardinality({i \in 1..Len(overrides) : overrides[i].name[1] = first})

\* Every override named `first` has this name, factor, confidence and effect.
AllNamed(overrides, first, name, factor, confidence, effect) ==
    \A i \in 1..Len(overrides) :
        overrides[i].name[1] = first =>
            overrides[i] = [name |-> name, factor |-> factor,
                            confidence |-> confidence, effect |-> effect]

\* C8: detect_overrides reports a long-weekend override (1.50) if and only
\* if day_type is long_weekend; on a calendar holiday exactly one of a
\* festival override (1.40, the name contains a festival keyword) or a
\* generic holiday override (1.30), and no holiday-eve override; on any
\* other date a holiday-eve override (1.15) if and only if day_type is
\* holiday_eve and the next day is a holiday; each has confidence high and
\* effect surge, and there are no other surge overrides.
C8_CalendarOverrides ==
    ret.kind = "Overrides" =>
        LET d  == call.date
            os == ret.overrides
        IN  /\ CountNamed(os, "Long Weekend") = (IF call.day_type = "long_weekend" THEN 1 ELSE 0)
            /\ AllNamed(os, "Long Weekend", <<"Long Weekend">>, 150, "high", "surge")
            /\ IsHoliday(d) =>
                   /\ CountNamed(os, "Festival: ") = (IF is_festival(INDIAN_HOLIDAYS[d]) THEN 1 ELSE 0)
                   /\ CountNamed(os, "Holiday: ") = (IF is_festival(INDIAN_HOLIDAYS[d]) THEN 0 ELSE 1)
                   /\ CountNamed(os, "Eve of ") = 0
                   /\ AllNamed(os, "Festival: ", <<"Festival: ", INDIAN_HOLIDAYS[d]>>, 140, "high", "surge")
                   /\ AllNamed(os, "Holiday: ", <<"Holiday: ", INDIAN_HOLIDAYS[d]>>, 130, "high", "surge")
            /\ ~IsHoliday(d) =>
                   /\ CountNamed(os, "Festival: ") = 0
                   /\ CountNamed(os, "Holiday: ") = 0
                   /\ CountNamed(os, "Eve of ") =
                          (IF call.day_type = "holiday_eve" /\ IsHoliday(d + 1) THEN 1 ELSE 0)
                   /\ IsHoliday(d + 1) =>
                          AllNamed(os, "Eve of ", <<"Eve of ", INDIAN_HOLIDAYS[d + 1]>>, 115, "high", "surge")
            /\ \A i \in 1..Len(os) :
                   os[i].effect = "surge" =>
                       os[i].name[1] \in {"Long Weekend", "Festival: ", "Holiday: ", "Eve of "}

\* A festival that is part of a long weekend: both overrides reported.
C8_FestivalOnLongWeekend ==
    /\ ret.kind = "Overrides"
    /\ CountNamed(ret.overrides, "Long Weekend") = 1
    /\ CountNamed(ret.overrides, "Festival: ") = 1

\* C9: for a month with an entry in the weather-by-month table,
\* detect_overrides reports a heavy-rain override (0.70) when
\* P(heavy_rain) > 0.15, otherwise a rain override (0.85) when
\* P(rain) + P(heavy_rain) > 0.25, and independently a heatwave override
\* (0.90) when P(hot) > 0.20, each threshold strict; never both a rain and a
\* heavy-rain override; each has confidence medium, effect discount and a
\* factor below 1; for a month without an entry there is no weather override.
C9_WeatherOverrides ==
    ret.kind = "Overrides" =>
        LET table   == override_detector.weather_by_month
            month   == Month(call.date)
            has     == month \in DOMAIN table
            P(kind) == Get(table[month], kind, 0)
            heavy   == has /\ P("heavy_rain") > 1500
            rain    == has /\ ~heavy /\ P("rain") + P("heavy_rain") > 2500
            hot     == has /\ P("hot") > 2000
            os      == ret.overrides
        IN  /\ CountNamed(os, "Heavy Rain Likely") = (IF heavy THEN 1 ELSE 0)
            /\ CountNamed(os, "Rain Likely") = (IF rain THEN 1 ELSE 0)
            /\ CountNamed(os, "Heatwave Likely") = (IF hot THEN 1 ELSE 0)
            /\ CountNamed(os, "Heavy Rain Likely") + CountNamed(os, "Rain Likely") <= 1
            /\ AllNamed(os, "Heavy Rain Likely", <<"Heavy Rain Likely">>, 70, "medium", "discount")
            /\ AllNamed(os, "Rain Likely", <<"Rain Likely">>, 85, "medium", "discount")
            /\ AllNamed(os, "Heatwave Likely", <<"Heatwave Likely">>, 90, "medium", "discount")
            /\ \A i \in 1..Len(os) :
                   os[i].effect = "discount" =>
                       /\ os[i].factor < 100
                       /\ os[i].name[1] \in {"Heavy Rain Likely", "Rain Likely", "Heatwave Likely"}
            /\ ~has => \A i \in 1..Len(os) : os[i].effect # "discount"

\* A month whose probabilities sit exactly on the three thresholds
\* (P(heavy_rain) = 0.15, P(rain) + P(heavy_rain) = 0.25, P(hot) = 0.20):
\* no weather override.
C9_OnTheThresholds ==
    /\ ret.kind = "Overrides"
    /\ Month(call.date) \in DOMAIN override_detector.weather_by_month
    /\ LET probs == override_detector.weather_by_month[Month(call.date)]
       IN  /\ Get(probs, "heavy_rain", 0) = 1500
           /\ Get(probs, "rain", 0) + Get(probs, "heavy_rain", 0) = 2500
           /\ Get(probs, "hot", 0) = 2000
    /\ \A i \in 1..Len(ret.overrides) : ret.overrides[i].effect # "discount"

\* The overrides detect_overrides detects for its call, before it combines
\* them.
Detected ==
    LongWeekendOverrides(call.day_type)
        \o CalendarOverrides(call.date, call.day_type)
        \o WeatherOverrides(override_detector.weather_by_month, Month(call.date))

\* C10: the combined factor is the product of the factors of the reported
\* overrides (1.0 for none) saturated into [0.5, 2.0]; was_capped is true
\* if and only if the product is above 2.0 or below 0.5; the reported list
\* is the detected list, whether or not the factor was capped.  At most
\* four overrides fire, and the product of n factors is in units of 100^-n.
C10_CombinedFactor ==
    ret.kind = "Overrides" =>
        LET n       == Len(ret.overrides)
            product == FactorProduct(ret.overrides)
            scaled  == product * Pow100(4 - n)      \* units of 1e-8
            above   == scaled > MAX_OVERRIDE_FACTOR * One6
            below   == scaled < (One8 \div MAX_OVERRIDE_FACTOR) * 100
        IN  /\ n <= 4
            /\ ret.was_capped <=> (above \/ below)
            /\ ret.combined =
                   IF above THEN MAX_OVERRIDE_FACTOR * One6
                   ELSE IF below THEN (One8 \div MAX_OVERRIDE_FACTOR) * 100
                   ELSE scaled
            /\ n = 0 => ret.combined = One8
            /\ ret.overrides = Detected

\* A long weekend on a festival: 1.50 x 1.40 = 2.10, reported as 2.0 and
\* capped, with both overrides in the list.
C10_CappedAtTwo ==
    /\ ret.kind = "Overrides"
    /\ Len(ret.overrides) = 2
    /\ FactorProduct(ret.overrides) = 150 * 140
    /\ ret.combined = 2 * One8
    /\ ret.was_capped

\* The factors of a list of overrides, in order.
Factors(overrides) == [i \in 1..Len(overrides) |-> overrides[i].factor]

\* The surge overrides of a list, in order.
SurgeOnly(overrides) == SelectSeq(overrides, LAMBDA o : o.effect = "surge")

\* The stack long weekend 1.50, festival 1.40, holiday 1.30.
SurgeStack ==
    <<DetectedOverride(<<"Long Weekend">>, "long_weekend", "high", "surge"),
      DetectedOverride(<<"Festival">>, "festival", "high", "surge"),
      DetectedOverride(<<"Holiday">>, "holiday", "high", "surge")>>

ZoneIntervals ==
    << <<"Dead", 0, 1500>>, <<"Low", 1500, 4000>>, <<"Normal", 4000, 6000>>,
       <<"High", 6000, 8000>>, <<"Surge", 8000, One4 + 1>> >>

\* The zones whose interval holds a score of units 1e-4.
ZonesOf(score4) ==
    {ZoneIntervals[i][1] : i \in {j \in 1..Len(ZoneIntervals) :
        ZoneIntervals[j][2] <= score4 /\ score4 < ZoneIntervals[j][3]}}

\* C12 as stated: every score in [0, 1] is in exactly one of [0, 0.15) Dead,
\* [0.15, 0.40) Low, [0.40, 0.60) Normal, [0.60, 0.80) High, [0.80, 1.0]
\* Surge, classify_demand_zone gives that zone, and the zone of every
\* DemandResult is the zone of the score the DemandResult reports.
C12_ZoneOfReportedScore ==
    ret.kind = "DemandResult" =>
        /\ \A s \in {0, 1499, 1500, 3999, 4000, 5999, 6000, 7999, 8000, One4, ret.score} :
               ZonesOf(s) = {classify_demand_zone(s * 100)}
        /\ ret.zone = classify_demand_zone(ret.score * 100)

\* A DemandResult whose reported score is the rounding up to a threshold of
\* a score below it: the zone is the one below the zone of the reported
\* score.
C12_RoundedAcrossThreshold ==
    /\ ret.kind = "DemandResult"
    /\ ret.score \in {1500, 4000, 6000, 8000}
    /\ ret.zone # classify_demand_zone(ret.score * 100)

\* Scores to compare a call's score with, units of 1e-4.
ScoreSamples == {0, 1, 1500, 2307, 2308, 4000, BASELINE_DEMAND - 1, BASELINE_DEMAND,
                 BASELINE_DEMAND + 1, 6000, 8000, One4 - 1, One4}

\* C13: the surge multiplier of a PriceResult is MIN_MULTIPLIER + score x
\* (MAX_MULTIPLIER - MIN_MULTIPLIER) for the score of its demand (0.70 at
\* score 0, 2.00 at score 1, 1.35 > 1.0 at the baseline 0.50), the reported
\* field is that value to four decimals, and a call with a higher score never
\* has a lower surge multiplier: every score above the call's maps to at
\* least the call's multiplier and every score below it to at most that.
C13_SurgeLinear ==
    ret.kind = "PriceResult" =>
        LET score == ret.demand.score
            surge == ret.locals.surge_multiplier
            Line(s) == MIN_MULTIPLIER * One4 + s * (MAX_MULTIPLIER - MIN_MULTIPLIER)
        IN  /\ surge = Line(score)
            /\ ret.surge_multiplier = RoundDiv(surge, 100)
            /\ score = 0 => ret.surge_multiplier = 7000
            /\ score = One4 => ret.surge_multiplier = 20000
            /\ score = BASELINE_DEMAND => ret.surge_multiplier = 13500 /\ surge > One6
            /\ \A s \in ScoreSamples \cup {score - 1, score + 1} :
                   /\ s > score => Line(s) > surge
                   /\ s < score => Line(s) < surge
                   /\ s >= score => SurgeMultiplier(s) >= surge
                   /\ s <= score => SurgeMultiplier(s) <= surge

\* A call whose demand score is the baseline 0.50: surge multiplier 1.35.
C13_BaselineGivesSurge ==
    /\ ret.kind = "PriceResult"
    /\ ret.demand.score = BASELINE_DEMAND
    /\ ret.surge_multiplier = 13500
    /\ ret.locals.surge_multiplier > One6

SameCallBefore ==
    {i \in 1..Len(returned) :
        returned[i].call = call /\ returned[i].ret.kind = "PriceResult"}

\* C15 as stated: a PriceResult is identical in every field, warnings and
\* explanation included, to the PriceResult any earlier call with the same
\* rental datetime, vehicle type and duration returned, whenever the two
\* calls were made.
C15_SameResultWhenever ==
    ret.kind = "PriceResult" =>
        \A i \in SameCallBefore : ret = returned[i].ret

\* C15, amended: the two results are identical in every field other than
\* the warnings (prices, multipliers, demand, overrides and explanation),
\* whenever the calls were made and whatever was called in between; the
\* warnings are identical too when both calls read the same current time.
C15_SameResultButWarnings ==
    ret.kind = "PriceResult" =>
        \A i \in SameCallBefore :
            /\ [ret EXCEPT !.warnings = <<>>] = [returned[i].ret EXCEPT !.warnings = <<>>]
            /\ ret.final_price = returned[i].ret.final_price
            /\ ret.demand = returned[i].ret.demand
            /\ ret.overrides_detected = returned[i].ret.overrides_detected
            /\ ret.explanation = returned[i].ret.explanation
            /\ returned[i].now = now => ret.warnings = returned[i].ret.warnings

\* The same rental priced twice, months apart: the first call warns about a
\* distant date, the second about a past date, and nothing else differs.
C15_RepeatedAfterTheRental ==
    /\ ret.kind = "PriceResult"
    /\ Len(returned) >= 1
    /\ returned[1].call = call
    /\ returned[1].ret.kind = "PriceResult"
    /\ returned[1].now # now
    /\ Len(returned[1].ret.warnings) = 1
    /\ returned[1].ret.warnings[1].kind = "confidence"
    /\ Len(ret.warnings) = 1
    /\ ret.warnings[1].kind = "historical"
    /\ ret.final_price = returned[1].ret.final_price
    /\ ret.explanation = returned[1].ret.explanation

\* The call of the current state made again for the Saturday of the same
\* week, four days after its Tuesday.
SaturdaySameWeek ==
    calculate_price(demand_model, override_detector, now,
                    call.date + 4, call.hour, call.vehicle_type, call.duration)

\* A returned 09:00 call on a Tuesday whose Saturday is in the same month
\* and inside the calendar's span, priced from the fallback profiles.
TuesdayOfSameMonthWeek ==
    /\ ret.kind = "PriceResult"
    /\ demand_model.using_fallback
    /\ Weekday(call.date) = 1
    /\ call.hour = 9
    /\ call.date >= CalendarFirst
    /\ call.date + 4 <= CalendarLast
    /\ Month(call.date + 4) = Month(call.date)

\* C16 as stated: in every such week the demand score of Saturday 09:00 is
\* strictly greater than that of Tuesday 09:00, and so is the price for the
\* same vehicle and duration.
C16_SaturdayAboveTuesday ==
    TuesdayOfSameMonthWeek =>
        /\ SaturdaySameWeek.kind = "PriceResult"
        /\ SaturdaySameWeek.demand.score > ret.demand.score
        /\ SaturdaySameWeek.final_price > ret.final_price

\* C16, amended: in every such week whose Tuesday is an ordinary weekday
\* (classified regular_weekday or exam_weekday, so neither a long-weekend
\* day nor a holiday eve), with the fallback profiles, the Saturday 09:00
\* score is strictly greater than the Tuesday 09:00 score and the Saturday
\* price is higher; the Saturday is then a saturday, long_weekend, holiday
\* or holiday_eve day.
C16_SaturdayAboveOrdinaryTuesday ==
    (TuesdayOfSameMonthWeek /\ ret.demand.day_type \in {"regular_weekday", "exam_weekday"}) =>
        /\ SaturdaySameWeek.kind = "PriceResult"
        /\ SaturdaySameWeek.demand.day_type \in {"saturday", "long_weekend", "holiday", "holiday_eve"}
        /\ SaturdaySameWeek.demand.score > ret.demand.score
        /\ SaturdaySameWeek.final_price > ret.final_price

\* An ordinary Tuesday followed by a plain Saturday, the Saturday dearer.
C16_PlainWeek ==
    /\ TuesdayOfSameMonthWeek
    /\ ret.demand.day_type = "regular_weekday"
    /\ SaturdaySameWeek.demand.day_type = "saturday"
    /\ SaturdaySameWeek.demand.score > ret.demand.score
    /\ SaturdaySameWeek.final_price > ret.final_price

\* A Tuesday inside a long weekend: its score is above the score of the
\* Saturday that follows.
C16_LongWeekendTuesday ==
    /\ TuesdayOfSameMonthWeek
    /\ ret.demand.day_type = "long_weekend"
    /\ SaturdaySameWeek.demand.score < ret.demand.score

\* The call of the current state made again for d2 hours.
PriceFor(d2) ==
    calculate_price(demand_model, override_detector, now,
                    call.date, call.hour, call.vehicle_type, IntDuration(d2))

\* A returned price call and the longer durations to compare it with.
LongerDurations ==
    IF ret.kind = "PriceResult" THEN (call.duration.value + 1)..MaxDuration ELSE {}

\* The pairs d1 < d2 across the 24-hour tier with 0.70 x d2 <= 0.80 x d1.
AcrossDayTier == {<<21, 24>>, <<22, 24>>, <<22, 25>>, <<23, 24>>, <<23, 25>>, <<23, 26>>}

\* C17 as stated: for a fixed rental datetime and vehicle type the price
\* for d2 hours is greater than the price for d1 hours whenever
\* 1 <= d1 < d2.
C17_PriceIncreasesWithDuration ==
    \A d2 \in LongerDurations : PriceFor(d2).final_price > ret.final_price

\* C17, amended: the price for d2 hours is greater than the price for d1
\* hours for all 1 <= d1 < d2 except across the 24-hour tier: for
\* (22, 24), (22, 25), (23, 24), (23, 25) and (23, 26) the longer rental is
\* cheaper, and for (21, 24) the two cost the same to within a paisa.
C17_PriceIncreasesButAcrossDayTier ==
    \A d2 \in LongerDurations :
        LET d1 == call.duration.value
            p1 == ret.final_price
            p2 == PriceFor(d2).final_price
        IN  /\ <<d1, d2>> \notin AcrossDayTier => p2 > p1
            /\ <<d1, d2>> \in AcrossDayTier \ {<<21, 24>>} => p2 < p1
            /\ <<d1, d2>> = <<21, 24>> => p2 - p1 \in {-1, 0, 1}

\* A 23-hour rental: 24, 25 and 26 hours cost less, 27 hours more.
C17_DayCheaperThan23Hours ==
    /\ ret.kind = "PriceResult"
    /\ call.duration.value = 23
    /\ PriceFor(24).final_price < ret.final_price
    /\ PriceFor(26).final_price < ret.final_price
    /\ PriceFor(27).final_price > ret.final_price

\* "friday" in name.lower(), for an override name given by its parts: the
\* fixed parts ("Long Weekend", "Festival: ", "Holiday: ", "Eve of " and the
\* weather names) do not contain it, a holiday name may.
MentionsFriday(name) ==
    \E i \in 1..Len(name) :
        /\ name[i] \in DOMAIN LowerChars
        /\ Contains(LowerChars[name[i]], <<"f", "r", "i", "d", "a", "y">>)

\* The names of the overrides of a PriceResult that mention Friday.
FridayOverrides(result) ==
    {i \in 1..Len(result.overrides_detected) :
        MentionsFriday(result.overrides_detected[i].name)}

\* C18: a rental starting on a Friday at 18:00 has a detected override
\* whose name mentions Friday (the Friday-evening pickup override), and a
\* rental starting on a Friday at 09:00 has none.
C18_FridayEveningOverride ==
    (ret.kind = "PriceResult" /\ Weekday(call.date) = 4) =>
        /\ call.hour = 18 => FridayOverrides(ret) # {}
        /\ call.hour = 9 => FridayOverrides(ret) = {}

\* A Friday 18:00 rental priced with no override at all.
C18_FridayEveningUndetected ==
    /\ ret.kind = "PriceResult"
    /\ Weekday(call.date) = 4
    /\ call.hour = 18
    /\ ret.demand.day_type = "friday"
    /\ ret.overrides_detected = <<>>

\* The call of the current state made again for 09:00 of the same day.
MorningPrice ==
    calculate_price(demand_model, override_detector, now,
                    call.date, 9, call.vehicle_type, call.duration)

\* C19: for the same Friday, vehicle type and duration, the rental starting
\* at 18:00 has a strictly higher final_price than the one starting at 09:00.
C19_FridayEveningDearer ==
    (ret.kind = "PriceResult" /\ Weekday(call.date) = 4 /\ call.hour = 18) =>
        ret.final_price > MorningPrice.final_price

\* A Friday priced from the fallback profiles: the 18:00 rental is cheaper
\* than the 09:00 one.
C19_FridayEveningCheaper ==
    /\ ret.kind = "PriceResult"
    /\ demand_model.using_fallback
    /\ Weekday(call.date) = 4
    /\ call.hour = 18
    /\ ret.demand.day_type = "friday"
    /\ ret.final_price < MorningPrice.final_price

\* C20: whenever the demand score is below BASELINE_DEMAND the surge
\* multiplier is less than 1.0 and whenever it is above BASELINE_DEMAND the
\* surge multiplier is greater than 1.0; a Tuesday 03:00 in July has a
\* surge multiplier below 1.0.
C20_BaselineSplitsDiscountAndSurge ==
    ret.kind = "PriceResult" =>
        /\ ret.demand.score < BASELINE_DEMAND => ret.locals.surge_multiplier < One6
        /\ ret.demand.score > BASELINE_DEMAND => ret.locals.surge_multiplier > One6
        /\ (Weekday(call.date) = 1 /\ call.hour = 3 /\ Month(call.date) = 7) =>
               ret.surge_multiplier < One4

\* Tuesday 2025-07-15 03:00 with the fallback profiles: score 0.235, below
\* the baseline, and surge multiplier 1.0055, above 1.0.
C20_MonsoonNightAboveOne ==
    /\ ret.kind = "PriceResult"
    /\ demand_model.using_fallback
    /\ call.date = Ymd2Ord(2025, 7, 15)
    /\ call.hour = 3
    /\ ret.demand.score = 2350
    /\ ret.surge_multiplier = 10055

\* A detect_overrides call that returned and whose day_type argument is the
\* one the classifier computes for the date, as calculate_price passes it.
ClassifiedCall ==
    /\ ret.kind = "Overrides"
    /\ call.day_type = _classify_day(call.date)

\* C21: for a date and its own day type, every override with effect surge
\* has a factor above 1 and occurs only when the day type is long_weekend,
\* holiday or holiday_eve (so never on a regular_weekday), every override
\* with effect discount has a factor below 1, and there is no other effect.
C21_SurgeOnlyOnSpecialDays ==
    ClassifiedCall =>
        \A i \in 1..Len(ret.overrides) :
            LET o == ret.overrides[i]
            IN  /\ o.effect \in {"surge", "discount"}
                /\ o.effect = "surge" =>
                       /\ o.factor > 100
                       /\ call.day_type \in {"long_weekend", "holiday", "holiday_eve"}
                       /\ call.day_type # "regular_weekday"
                /\ o.effect = "discount" => o.factor < 100

\* A regular weekday in a rainy month: a discount override and no surge.
C21_RegularWeekdayDiscountOnly ==
    /\ ClassifiedCall
    /\ call.day_type = "regular_weekday"
    /\ Len(ret.overrides) >= 1
    /\ \A i \in 1..Len(ret.overrides) :
           ret.overrides[i].effect = "discount" /\ ret.overrides[i].factor < 100

\* The kinds of the entries of an explanation trail, in order.
StepsOf(explanation) == [i \in 1..Len(explanation) |-> explanation[i].step]

\* The order of entries the result's own fields call for.
ExpectedSteps ==
    LET n == Len(ret.overrides_detected)
    IN  <<"vehicle", "day_type", "season", "time_slot">>
        \o (IF call.date \in DOMAIN INDIAN_HOLIDAYS THEN <<"holiday">> ELSE <<>>)
        \o <<"blended", "surge">>
        \o (IF n = 0 THEN <<"no_overrides">>
            ELSE <<"overrides">> \o [i \in 1..n |-> "override"]
                 \o (IF ret.override_was_capped THEN <<"capped">> ELSE <<>>))
        \o <<"final">>
        \o (IF ret.duration_discount < 100 THEN <<"duration_discount">> ELSE <<>>)
        \o <<"effective">>

\* C22: the explanation of every PriceResult has its entries in the fixed
\* order: vehicle and base rate, day type, season, time slot, a holiday line
\* iff the date is a holiday, blended score and zone, surge multiplier, then
\* a header with one line per detected override in order (and a capping note
\* iff was_capped) or a single no-overrides line, the final multiplier with
\* its bounds, a duration line iff the discount is below 1.0, and last the
\* effective rate; it has at least 5 entries.
C22_ExplanationOrder ==
    ret.kind = "PriceResult" =>
        LET ex    == ret.explanation
            steps == StepsOf(ex)
            n     == Len(ret.overrides_detected)
            first == IF call.date \in DOMAIN INDIAN_HOLIDAYS THEN 8 ELSE 7
        IN  /\ steps = ExpectedSteps
            /\ Len(ex) >= 5
            /\ ex[1].name = VEHICLE_DISPLAY_NAMES[call.vehicle_type]
            /\ ex[1].base_rate = ret.base_rate
            /\ ex[2].day_type = ret.demand.day_type
            /\ ex[Len(ex)].step = "effective"
            /\ ex[Len(ex)].total = ret.final_price
            /\ ex[Len(ex)].rate = ret.effective_hourly_rate
            /\ ex[Len(ex)].duration = call.duration.value
            /\ n > 0 =>
                   /\ ex[first].count = n
                   /\ \A i \in 1..n : ex[first + i].name = ret.overrides_detected[i].name
            /\ \A i \in 1..Len(ex) :
                   /\ ex[i].step = "holiday" => ex[i].name = INDIAN_HOLIDAYS[call.date]
                   /\ ex[i].step = "blended" => ex[i].zone = ret.demand.zone
                   /\ ex[i].step = "final" =>
                          ex[i].lower = MIN_MULTIPLIER /\ ex[i].upper = MAX_MULTIPLIER
                   /\ ex[i].step = "duration_discount" => ex[i].duration = call.duration.value

\* A day-long rental on a festival inside a long weekend: holiday line, two
\* override lines, capping note and duration line, fourteen entries.
C22_FullTrail ==
    /\ ret.kind = "PriceResult"
    /\ StepsOf(ret.explanation) =
           <<"vehicle", "day_type", "season", "time_slot", "holiday", "blended", "surge",
             "overrides", "override", "override", "capped", "final", "duration_discount",
             "effective">>

\* An hour on an ordinary day with nothing detected: the shortest trail.
C22_ShortestTrail ==
    /\ ret.kind = "PriceResult"
    /\ StepsOf(ret.explanation) =
           <<"vehicle", "day_type", "season", "time_slot", "blended", "surge",
             "no_overrides", "final", "effective">>

\* The table a lookup reads in the constructed DemandModel, and the key.
LookedUpTable ==
    Get(demand_model.profiles,
        CASE call.op = "_get_day_type_score" -> "day_type"
          [] call.op = "_get_monthly_score" -> "monthly"
          [] OTHER -> "hourly",
        EmptyObject)

LookedUpKey ==
    CASE call.op = "_get_day_type_score" -> call.day_type
      [] call.op = "_get_monthly_score" -> call.month
      [] OTHER -> call.hour

DocumentedDefault ==
    CASE call.op = "_get_day_type_score" -> 3500
      [] call.op = "_get_monthly_score" -> 5000
      [] OTHER -> 3000

\* C23: building and querying the profile store never fails: construction
\* raises nothing; over an absent or empty profile file the store holds the
\* embedded default tables and its using_fallback flag is set, over a loaded
\* file the flag is clear; and a lookup of a key that the tables lack
\* returns the documented default (day type 0.35, monthly 0.5, hourly 0.3).
C23_StoreNeverFails ==
    /\ ret.kind # "JSONDecodeError"
    /\ ret.kind \in {"Constructed", "Lookup"} =>
           /\ (~files.v1.exists \/ ~files.v1.parses \/ files.v1.json = EmptyObject)
                  => /\ demand_model.profiles = _fallback_profiles
                     /\ demand_model.using_fallback
           /\ (files.v1.exists /\ files.v1.parses /\ files.v1.json # EmptyObject)
                  => ~demand_model.using_fallback
           /\ demand_model_v2.using_fallback
                  = (~files.duckdb.exists \/ ~files.duckdb.parses)
    /\ ret.kind = "Lookup" =>
           ret.value = IF LookedUpKey \in DOMAIN LookedUpTable
                       THEN LookedUpTable[LookedUpKey]
                       ELSE DocumentedDefault

\* A profile file of zero bytes makes construction raise.
C23_EmptyFileRaises ==
    /\ files.v1 = EmptyFile
    /\ call.op = "construct"
    /\ ret = JSONDecodeError

\* C24: the effective hourly rate of every PriceResult, in paise, is at least
\* PRICE_FLOOR_RATES and at most PRICE_CEILING_RATES of its vehicle type.
C24_PriceGuardsHold ==
    ret.kind = "PriceResult" =>
        /\ ret.effective_hourly_rate >= 100 * PRICE_FLOOR_RATES[ret.vehicle_type]
        /\ ret.effective_hourly_rate <= 100 * PRICE_CEILING_RATES[ret.vehicle_type]

\* A day-long rental of a scooter on a low-demand night with a heavy-rain
\* discount is priced under the floor of 40 rupees an hour.
C24_ScooterBelowFloor ==
    /\ ret.kind = "PriceResult"
    /\ ret.vehicle_type = "scooter"
    /\ ret.duration_hours = 24
    /\ ret.override_factor < One4
    /\ ret.effective_hourly_rate < 100 * PRICE_FLOOR_RATES["scooter"]

\* The ceiling half: no effective hourly rate exceeds the ceiling.
C24_CeilingHolds ==
    ret.kind = "PriceResult" =>
        ret.effective_hourly_rate <= 100 * PRICE_CEILING_RATES[ret.vehicle_type]

\* What each of the two models returns for the date and hour of the call.
V1Result ==
    IF call.op = "estimate_demand" THEN ret
    ELSE estimate_demand(demand_model, call.date, call.hour)

V2Result ==
    IF call.op = "estimate_demand_v2" THEN ret
    ELSE estimate_demand_v2(demand_model_v2, call.date, call.hour)

\* C25: for every date the day type of the cross-dimensional model (v2) is
\* the day type of the single-dimension model (v1), except that v2 gives
\* regular_weekday where v1 gives exam_weekday; both attach the same holiday
\* metadata, is_holiday being true and holiday_name set exactly for the dates
\* of the calendar; and one model raises exactly where the other does.
C25_ModelsAgreeOnDayType ==
    ret.kind # "pending" =>
        /\ V1Result.kind = V2Result.kind
        /\ V1Result.kind = "DemandResult" =>
               /\ V2Result.day_type =
                      IF V1Result.day_type = "exam_weekday" THEN "regular_weekday"
                      ELSE V1Result.day_type
               /\ V2Result.is_holiday = V1Result.is_holiday
               /\ V2Result.holiday_name = V1Result.holiday_name
               /\ V1Result.is_holiday = (call.date \in DOMAIN INDIAN_HOLIDAYS)
               /\ (V1Result.holiday_name # "None") = (call.date \in DOMAIN INDIAN_HOLIDAYS)

\* An exam-season weekday: v1 tags it exam_weekday, v2 regular_weekday.
C25_ExamWeekdayIsRegularInV2 ==
    /\ call.op = "estimate_demand_v2"
    /\ ret.kind = "DemandResult"
    /\ ret.day_type = "regular_weekday"
    /\ V1Result.kind = "DemandResult"
    /\ V1Result.day_type = "exam_weekday"

\* A holiday inside a long weekend: both models tag it long_weekend and
\* name the holiday.
C25_HolidayNamedByBoth ==
    /\ call.op = "estimate_demand"
    /\ ret.kind = "DemandResult"
    /\ ret.day_type = "long_weekend"
    /\ ret.is_holiday
    /\ V2Result.day_type = "long_weekend"
    /\ V2Result.holiday_name = ret.holiday_name

\* C26: the weekday key under which the cross-dimensional model looks up the
\* hour-by-weekday and weekday-by-month rows of a date is the key the
\* profile tables give that date's day of the week (0 = Sunday ... 6 =
\* Saturday).
C26_WeekdayKeyIsTableKey ==
    (call.op = "estimate_demand_v2" /\ ret.kind = "DemandResult") =>
        ret.weekday = dow(call.date)

\* A Saturday is looked up under key 5, the tables' row of Friday.
C26_SaturdayReadsFridayRow ==
    /\ call.op = "estimate_demand_v2"
    /\ ret.kind = "DemandResult"
    /\ ret.day_type = "saturday"
    /\ ret.weekday = 5
    /\ dow(call.date) = 6

\* A returned estimate of the single-dimension model for a Saturday, scored
\* with the embedded fallback tables.
FallbackSaturday ==
    /\ call.op = "estimate_demand"
    /\ ret.kind = "DemandResult"
    /\ demand_model.using_fallback
    /\ ret.weekday = 5

\* C27: with the embedded fallback day-type table no Saturday is given a
\* day-type score lower than the plain saturday score, 0.80.
C27_SaturdayNeverBelowPlain ==
    FallbackSaturday => ret.day_type_score >= 8000

\* C27, amended: a Saturday is given a day-type score lower than 0.80
\* exactly when it is tagged holiday_eve, and the score is then 0.70; every
\* other Saturday is tagged long_weekend, holiday or saturday.
C27_SaturdayBelowPlainOnlyAsHolidayEve ==
    FallbackSaturday =>
        /\ ret.day_type \in {"long_weekend", "holiday", "holiday_eve", "saturday"}
        /\ (ret.day_type_score < 8000) = (ret.day_type = "holiday_eve")
        /\ ret.day_type = "holiday_eve" => ret.day_type_score = 7000

\* A Saturday before a Sunday holiday: tagged holiday_eve, scored 0.70.
C27_SaturdayHolidayEve ==
    /\ FallbackSaturday
    /\ ret.day_type = "holiday_eve"
    /\ ret.day_type_score = 7000
    /\ IsHoliday(call.date + 1)

\* C28: neither model ever returns the day type bridge_strong: every date
\* that satisfies the bridge_strong rule (a Monday before a Tuesday holiday,
\* a Friday after a Thursday holiday) lies in that holiday's long-weekend
\* stretch and is classified long_weekend.  Whatever the calendar holds, a
\* Monday is in the stretch of the day after it and a Friday in the stretch
\* of the day before it, were that day a holiday.
C28_BridgeStrongNeverReturned ==
    ret.kind = "DemandResult" =>
        /\ ret.day_type # "bridge_strong"
        /\ _is_strong_bridge(call.date) = "True" =>
               /\ _is_long_weekend_day(call.date) = "True"
               /\ ret.day_type = "long_weekend"
        /\ Weekday(call.date) = 0 => InStretch(call.date, call.date + 1)
        /\ Weekday(call.date) = 4 => InStretch(call.date, call.date - 1)

\* A Monday before a Tuesday holiday, estimated by the cross-dimensional
\* model: the bridge rule holds and the day is tagged long_weekend.
C28_BridgeMondayIsLongWeekend ==
    /\ call.op = "estimate_demand_v2"
    /\ ret.kind = "DemandResult"
    /\ Weekday(call.date) = 0
    /\ IsHoliday(call.date + 1)
    /\ _is_strong_bridge(call.date) = "True"
    /\ ret.day_type = "long_weekend"

\* A Friday after a Thursday holiday, estimated by the single-dimension
\* model.
C28_BridgeFridayIsLongWeekend ==
    /\ call.op = "estimate_demand"
    /\ ret.kind = "DemandResult"
    /\ Weekday(call.date) = 4
    /\ IsHoliday(call.date - 1)
    /\ ~IsHoliday(call.date)
    /\ ret.day_type = "long_weekend"

\* A returned detection whose day type is the one a classifier (of either
\* model) gives the date.
ClassifiedByEither ==
    /\ ret.kind = "Overrides"
    /\ call.day_type \in {_classify_day(call.date), _classify_day_v2(call.date)}

\* The overrides of a list whose name starts with one of the given labels.
Labelled(overrides, labels) == SelectSeq(overrides, LAMBDA o : o.name[1] \in labels)

C30_CappedOnlyFestivalLongWeekend ==
    ret.kind = "Overrides" =>
        /\ ret.was_capped =
               /\ Len(ret.overrides) = 2
               /\ Len(Labelled(ret.overrides, {"Long Weekend"})) = 1
               /\ Len(Labelled(ret.overrides, {"Festival: "})) = 1
        /\ ret.combined >= 63 * One6
        /\ ret.combined <= 200 * One6
        /\ Combined(ret.overrides) >= 63 * One6
        /\ ret.was_capped => ret.combined = 200 * One6

\* A festival in a long weekend of a month with a weather discount: the
\* product stays under the bound and nothing is capped.
C30_WeatherKeepsStackUncapped ==
    /\ ret.kind = "Overrides"
    /\ Len(Labelled(ret.overrides, {"Long Weekend"})) = 1
    /\ Len(Labelled(ret.overrides, {"Festival: "})) = 1
    /\ Len(ret.overrides) >= 3
    /\ ~ret.was_capped
    /\ ret.combined < 200 * One6

\* The lowest factor: heavy rain and heatwave in one month, 0.70 x 0.90.
C30_LowestFactor ==
    /\ ret.kind = "Overrides"
    /\ ret.combined = 63 * One6
    /\ ~ret.was_capped

=============================================================================
